---- MODULE Spec2Model ----
(***************************************************************************)
(* A model of the USDT balance checker: the API-key pool                   *)
(* (core.APIKeyManager), the batch query manager (core.QueryManager) and   *)
(* the retry loop of tron.APIClient.QueryBalanceWithContext.               *)
(*                                                                         *)
(*   SpecPool    the key pool alone: loads, selections, removals and the   *)
(*               background writers of the usage ledger;                   *)
(*   Spec        one QueryManager running QueryAddresses over the pool;    *)
(*   SpecRotate  selection alone on pools of two and three keys;           *)
(*   SpecLedger  the ledger written and read back;                         *)
(*   SpecLimiter tron.RateLimiter with concurrent callers of Wait;         *)
(*   SpecQuery   one call of QueryBalanceWithContext, with its waits;      *)
(*   SpecAddress the functions of tron/address.go on one address.          *)
(***************************************************************************)
EXTENDS Integers, Sequences, FiniteSets, TLC

(***************************************************************************)
(* Bounds of the model.                                                    *)
(***************************************************************************)
\* The per-key quota.  The program's value is 100000
\* (resourcefile.go:280); the model scales it down so that exhaustion is
\* reached.
MaxQueriesPerKey == 2
\* Selections made in one exploration of the pool alone (caps totalUsed).
MaxTotalUsed == 2
\* The longest address list given to QueryAddresses.
MaxAddrs == 5
\* The largest number of workers a modelled run starts.
MaxWorkers == 2
\* A modelled run of two or more workers has at most this many
\* (address, worker) pairs.
MaxLoad == 4
\* The goroutines that call RateLimiter.Wait.
MaxCallers == 2
\* The last tick of the limiter's clock.
MaxClock == 4
\* The last second of the clock of one query.
MaxQueryClock == 7

(***************************************************************************)
(* The key pool: state.                                                    *)
(***************************************************************************)
VARIABLES
    keys,        \* APIKeyManager.keys: sequence of APIKeyInfo
    current,     \* APIKeyManager.current (0-based, as in the code)
    totalUsed,   \* APIKeyManager.totalUsed
    mu,          \* APIKeyManager.mu: "free", or the operation that holds
                 \* the write lock and waits for it again
    ledger,      \* the contents of apikey_stats.json: key -> used
    saveSpawned, \* saveStats goroutines that have not read the pool yet
    saveSnaps,   \* snapshots read by saveStats and not written yet
    ret          \* what the last pool operation returned

poolVars == <<keys, current, totalUsed, mu, ledger, saveSpawned, saveSnaps, ret>>

\* The keys that occur in key files and ledgers.
KeySet == {"k1", "k2"}

\* The raw lines of a key file.
RawLines == {"", "k1", " k1 ", "k2"}

\* strings.TrimSpace on the raw lines.
TrimSpace(s) == IF s = " k1 " THEN "k1" ELSE s

\* The error values of the pool.
ErrNone      == ""
ErrOpen      == "open file failed"
ErrRead      == "read file failed"
ErrNoKeys    == "no valid API key in file"
ErrNotFound  == "API key not found"
ErrEmpty     == "no API key available"
ErrOneUsedUp == "API key reached its limit"
ErrAllUsedUp == "all API keys reached their limit"

EmptyStats == [k \in {} |-> 0]

APIKeyInfo(k, used) ==
    [Key |-> k, Used |-> used, MaxLimit |-> MaxQueriesPerKey, Enabled |-> TRUE]

KeyNames(ks) == {ks[i].Key : i \in 1..Len(ks)}

(***************************************************************************)
(* GetNextKey.                                                             *)
(***************************************************************************)
EligibleAtLimit(k) == k.Enabled /\ k.Used <= k.MaxLimit

\* The test of lines 452 and 477.
Eligible(k) == k.Enabled /\ k.Used < k.MaxLimit

SelectedWithoutCount(ks, idx, cur) ==
    [ok |-> TRUE, key |-> ks[idx + 1].Key, err |-> ErrNone, keys |-> ks, current |-> cur]

\* Lines 453-460 and 478-488: Used++ on the chosen key, which is returned.
Selected(ks, idx, cur) ==
    [ok |-> TRUE, key |-> ks[idx + 1].Key, err |-> ErrNone,
     keys |-> [ks EXCEPT ![idx + 1].Used = @ + 1], current |-> cur]

\* An error return that puts the cursor back to 0.
RefusedCursorReset(ks, cur, e) ==
    [ok |-> FALSE, key |-> "", err |-> e, keys |-> ks, current |-> 0]

\* The error returns of lines 446, 467 and 505.
Refused(ks, cur, e) ==
    [ok |-> FALSE, key |-> "", err |-> e, keys |-> ks, current |-> cur]

RECURSIVE ScanKeysCursorKept(_, _, _, _)
ScanKeysCursorKept(ks, cur, startIndex, i) ==
    IF i >= Len(ks) THEN Refused(ks, cur, ErrAllUsedUp)
    ELSE IF Eligible(ks[cur + 1])
         THEN Selected(ks, cur, cur)
         ELSE LET nxt == (cur + 1) % Len(ks) IN
              IF nxt = startIndex THEN Refused(ks, nxt, ErrAllUsedUp)
              ELSE ScanKeysCursorKept(ks, nxt, startIndex, i + 1)

\* A scan that stops at the end of the pool.
RECURSIVE ScanKeysNoWrap(_, _, _, _)
ScanKeysNoWrap(ks, cur, startIndex, i) ==
    IF Eligible(ks[cur + 1]) THEN Selected(ks, cur, (cur + 1) % Len(ks))
    ELSE IF cur + 1 >= Len(ks) THEN Refused(ks, startIndex, ErrAllUsedUp)
         ELSE ScanKeysNoWrap(ks, cur + 1, startIndex, i + 1)

\* The loop of lines 474-503: cur is m.current, i the loop counter.
RECURSIVE ScanKeys(_, _, _, _)
ScanKeys(ks, cur, startIndex, i) ==
    IF i >= Len(ks) THEN Refused(ks, cur, ErrAllUsedUp)
    ELSE IF Eligible(ks[cur + 1])
         THEN Selected(ks, cur, (cur + 1) % Len(ks))
         ELSE LET nxt == (cur + 1) % Len(ks) IN
              IF nxt = startIndex THEN Refused(ks, nxt, ErrAllUsedUp)
              ELSE ScanKeys(ks, nxt, startIndex, i + 1)

\* The body of GetNextKey under the lock.
NextKey(ks, cur) ==
    IF Len(ks) = 0 THEN Refused(ks, cur, ErrEmpty)
    ELSE IF Len(ks) = 1
         THEN IF Eligible(ks[1]) THEN Selected(ks, 0, cur)
              ELSE Refused(ks, cur, ErrOneUsedUp)
         ELSE ScanKeys(ks, cur, cur, 0)

SelectKeyTotalNotRaised ==
    /\ mu = "free"
    /\ LET r == NextKey(keys, current) IN
         /\ keys' = r.keys
         /\ current' = r.current
         /\ totalUsed' = totalUsed
         /\ saveSpawned' = IF r.ok THEN saveSpawned + 1 ELSE saveSpawned
         /\ ret' = [key |-> r.key, err |-> r.err, n |-> 0]
    /\ UNCHANGED <<mu, ledger, saveSnaps>>

SelectKeyAfterSave ==
    /\ mu = "free"
    /\ saveSpawned = 0 /\ saveSnaps = {}
    /\ LET r == NextKey(keys, current) IN
         /\ keys' = r.keys
         /\ current' = r.current
         /\ totalUsed' = IF r.ok THEN totalUsed + 1 ELSE totalUsed
         /\ saveSpawned' = IF r.ok THEN saveSpawned + 1 ELSE saveSpawned
         /\ ret' = [key |-> r.key, err |-> r.err, n |-> 0]
    /\ UNCHANGED <<mu, ledger, saveSnaps>>

\* One call of GetNextKey: the pool under the lock, and the saveStats
\* goroutine a successful selection starts (lines 458 and 486).
SelectKey ==
    /\ mu = "free"
    /\ LET r == NextKey(keys, current) IN
         /\ keys' = r.keys
         /\ current' = r.current
         /\ totalUsed' = IF r.ok THEN totalUsed + 1 ELSE totalUsed
         /\ saveSpawned' = IF r.ok THEN saveSpawned + 1 ELSE saveSpawned
         /\ ret' = [key |-> r.key, err |-> r.err, n |-> 0]
    /\ UNCHANGED <<mu, ledger, saveSnaps>>

(***************************************************************************)
(* The ledger: loadStats and saveStats.                                    *)
(***************************************************************************)
\* The map saveStats builds under the read lock (lines 631-638).
StatsOf(ks) == [k \in KeyNames(ks) |->
                  LET i == CHOOSE j \in 1..Len(ks) :
                             /\ ks[j].Key = k
                             /\ \A l \in (j + 1)..Len(ks) : ks[l].Key # k
                  IN ks[i].Used]

\* A key file is read as bytes, so a key need not be valid UTF-8: RawKey
\* stands for the bytes 'k', '3', 0xFF.  json.Encoder (line 653) writes a
\* string with every invalid byte replaced by U+FFFD; CoercedKey stands for
\* what it writes for RawKey.  Counts are written and read back as they are.
RawKey == "k3<ff>"
CoercedKey == "k3<fffd>"

EncodeKey(k) == IF k = RawKey THEN CoercedKey ELSE k

\* The file saveStats writes for the map stats, as loadStats decodes it
\* (lines 616-626).
Json(stats) ==
    [e \in {EncodeKey(k) : k \in DOMAIN stats} |->
        stats[CHOOSE k \in DOMAIN stats : EncodeKey(k) = e]]

MergeNothing(ks, stats) == ks

\* The merge of lines 359-363 and 592-596.
MergeStats(ks, stats) ==
    [i \in 1..Len(ks) |->
        IF ks[i].Key \in DOMAIN stats
        THEN [ks[i] EXCEPT !.Used = stats[ks[i].Key]]
        ELSE ks[i]]

\* A saveStats goroutine reads the pool under the read lock.
SaveSnapshot ==
    /\ mu = "free"
    /\ saveSpawned > 0
    /\ saveSpawned' = saveSpawned - 1
    /\ saveSnaps' = saveSnaps \cup {StatsOf(keys)}
    /\ UNCHANGED <<keys, current, totalUsed, mu, ledger, ret>>

\* It then writes the file, unless os.Create fails (the file is kept).
SaveWrite ==
    \E s \in saveSnaps, outcome \in {"written", "createFailed"} :
        /\ saveSnaps' = saveSnaps \ {s}
        /\ ledger' = CASE outcome = "written"      -> Json(s)
                       [] outcome = "createFailed" -> ledger
        /\ UNCHANGED <<keys, current, totalUsed, mu, saveSpawned, ret>>

\* A synchronous saveStats, called without the lock (line 371).
SaveNow(ks, outcome) ==
    CASE outcome = "written"      -> Json(StatsOf(ks))
      [] outcome = "createFailed" -> ledger

(***************************************************************************)
(* LoadKeysFromFile, LoadStatsIfExists.                                    *)
(***************************************************************************)
\* Lines 325-344: trimmed, non-empty, first occurrences, in order.
RECURSIVE ScanLinesRepeating(_, _)
RECURSIVE ScanLines(_, _)
ScanLinesRepeating(lines, seen) ==
    IF lines = <<>> THEN <<>>
    ELSE LET line == TrimSpace(Head(lines)) IN
         IF line = "" THEN ScanLinesRepeating(Tail(lines), seen)
         ELSE <<APIKeyInfo(line, 0)>> \o ScanLinesRepeating(Tail(lines), seen)

ScanLines(lines, seen) ==
    IF lines = <<>> THEN <<>>
    ELSE LET line == TrimSpace(Head(lines)) IN
         IF line = "" \/ line \in seen THEN ScanLines(Tail(lines), seen)
         ELSE <<APIKeyInfo(line, 0)>> \o ScanLines(Tail(lines), seen \cup {line})

\* The key files LoadKeysFromFile is given: a blank line only, one key, two
\* keys around a blank line, a key repeated with and without surrounding
\* blanks.
KeyFiles == {<<"">>, <<"k2">>, <<"k1", "", "k2">>, <<" k1 ", "k1">>}

\* Lines 322-364: the keys LoadKeysFromFile builds from the lines of the
\* file and the ledger that loadStats returns.
LoadedKeys(lines, stats) == MergeStats(ScanLines(lines, {}), stats)

\* A failed load that empties the pool.
LoadFailedPoolEmptied(e) ==
    /\ ret' = [key |-> "", err |-> e, n |-> 0]
    /\ keys' = <<>>
    /\ UNCHANGED <<current, ledger>>

\* The error returns of lines 318, 347 and 351: all before m.mu.Lock().
LoadFailed(e) ==
    /\ ret' = [key |-> "", err |-> e, n |-> 0]
    /\ UNCHANGED <<keys, current, ledger>>

\* LoadKeysFromFile on one of the given files, or on a path that does not
\* open.
LoadKeysFrom(files) ==
    /\ \/ LoadFailed(ErrOpen)
       \/ \E lines \in files :
            IF Len(LoadedKeys(lines, ledger)) = 0
            THEN LoadFailed(ErrNoKeys)
            ELSE /\ mu = "free"
                 /\ keys' = LoadedKeys(lines, ledger)
                 /\ current' = 0
                 /\ \E outcome \in {"written", "createFailed"} :
                        ledger' = SaveNow(LoadedKeys(lines, ledger), outcome)
                 /\ ret' = [key |-> "", err |-> ErrNone, n |-> 0]
    /\ UNCHANGED <<totalUsed, mu, saveSpawned, saveSnaps>>

LoadKeysFromFile == LoadKeysFrom(KeyFiles)

\* LoadKeysFromFile on a file that opens and whose reading fails (line 347).
LoadKeysFromUnreadable ==
    /\ LoadFailed(ErrRead)
    /\ UNCHANGED <<totalUsed, mu, saveSpawned, saveSnaps>>

LoadStatsIfExists ==
    /\ mu = "free"
    /\ keys' = MergeStats(keys, ledger)
    /\ ret' = [key |-> "", err |-> ErrNone, n |-> 0]
    /\ UNCHANGED <<current, totalUsed, mu, ledger, saveSpawned, saveSnaps>>

(***************************************************************************)
(* RemoveKey, RemoveKeysByUsageThreshold.  Both call saveStats while they  *)
(* hold the write lock; saveStats asks for the read lock of the same       *)
(* RWMutex and waits, so the call does not return and the lock stays held. *)
(***************************************************************************)
\* A removal that leaves the cursor where it is.
CursorKept(cur, n) == cur

\* Lines 396-399 and 429-432: a cursor past the end goes back to 0.
FixCursor(cur, n) == IF cur >= n THEN 0 ELSE cur

\* The loop of lines 383-389.
RECURSIVE WithoutKey(_, _)
WithoutKey(ks, keyToRemove) ==
    IF ks = <<>> THEN <<>>
    ELSE IF Head(ks).Key # keyToRemove
         THEN <<Head(ks)>> \o WithoutKey(Tail(ks), keyToRemove)
         ELSE WithoutKey(Tail(ks), keyToRemove)

\* The loop of lines 419-425.
RECURSIVE BelowThreshold(_, _)
BelowThreshold(ks, threshold) ==
    IF ks = <<>> THEN <<>>
    ELSE IF Head(ks).Used >= threshold
         THEN BelowThreshold(Tail(ks), threshold)
         ELSE <<Head(ks)>> \o BelowThreshold(Tail(ks), threshold)

RemoveKey ==
    \E keyToRemove \in KeySet :
        /\ mu = "free"
        /\ LET newKeys == WithoutKey(keys, keyToRemove) IN
           IF keyToRemove \notin KeyNames(keys)
           THEN /\ ret' = [key |-> "", err |-> ErrNotFound, n |-> 0]
                /\ UNCHANGED <<keys, current, mu>>
           ELSE /\ keys' = newKeys
                /\ current' = FixCursor(current, Len(newKeys))
                /\ mu' = "RemoveKey"
                /\ UNCHANGED ret
        /\ UNCHANGED <<totalUsed, ledger, saveSpawned, saveSnaps>>

RemoveKeysByUsageThreshold ==
    \E threshold \in 0..(MaxQueriesPerKey + 1) :
        /\ mu = "free"
        /\ LET newKeys == BelowThreshold(keys, threshold) IN
           IF Len(keys) = 0
           THEN /\ ret' = [key |-> "", err |-> ErrNone, n |-> 0]
                /\ UNCHANGED <<keys, current, mu>>
           ELSE /\ keys' = newKeys
                /\ current' = FixCursor(current, Len(newKeys))
                /\ mu' = "RemoveKeysByUsageThreshold"
                /\ UNCHANGED ret
        /\ UNCHANGED <<totalUsed, ledger, saveSpawned, saveSnaps>>

(***************************************************************************)
(* The query manager: state.                                               *)
(***************************************************************************)
VARIABLES
    addresses,      \* the argument of QueryAddresses
    results,        \* QueryManager.results
    ctxDone,        \* QueryManager.ctx is cancelled
    maxConcurrent,  \* QueryManager.maxConcurrent
    pcMain,         \* QueryAddresses: "idle", "running" or "done"
    nextJob,        \* the sender's loop variable i (1-based)
    jobsClosed,     \* the jobs channel is closed
    completedCount, \* completedCount of line 101
    wpc,            \* per worker: where it is in its loop
    widx,           \* per worker: the index i it received (0: none)
    wtry,           \* per worker: the loop variable i of the retry loop
    wcur,           \* per worker: its local variable current
    wkey,           \* per worker: the key GetNextKey returned to it
    \* History, kept for the properties:
    requested,      \* the last argument of SetMaxConcurrent
    progressLog,    \* value -> number of progressCallback(value, N) calls
    cancelSnap,     \* the run as it was when Cancel was first called
    wcalls,         \* per worker: GetNextKey calls made for widx
    wsent,          \* per worker: HTTPClient.Do calls made for widx
    wlast,          \* per worker: how its query for widx ended
    aborted,        \* an attempt in flight was ended by the cancellation
    \* The clients of the workers:
    wlim,           \* per worker: the RateLimiter of its APIClient
    rateAsked,      \* history: the last argument of SetRateLimit (0: none)
    wburst          \* history, per worker: the requests it has sent for
                    \* widx since a worker last slept (all at one instant)

clientVars == <<wlim, rateAsked, wburst>>

runVars == <<addresses, results, ctxDone, maxConcurrent, pcMain, nextJob,
             jobsClosed, completedCount, wpc, widx, wtry, wcur, wkey,
             requested, progressLog, cancelSnap, wcalls, wsent, wlast, aborted,
             wlim, rateAsked, wburst>>

workerVars == <<wpc, widx, wtry, wcur, wkey, wcalls, wsent, wlast>>

\* tron.RateLimiter (unnamed/part_000) and the goroutines that call Wait.
\* Time is counted in ticks of half an interval.
VARIABLES
    rate,        \* RateLimiter.rate, which is also maxTokens
    tokens,      \* RateLimiter.tokens
    lastRefill,  \* RateLimiter.lastRefill, in ticks
    clock,       \* time.Now(), in ticks
    lpc,         \* per caller of Wait: "idle" or "sleep" (line 52)
    wake,        \* per caller: the tick at which its Sleep may end
    lret         \* per tick: the calls of Wait that returned at that tick

limVars == <<rate, tokens, lastRefill, clock, lpc, wake, lret>>

\* One call of APIClient.QueryBalanceWithContext (tron/api.go), with time
\* counted in seconds.
VARIABLES
    qpc,         \* where the call is: "start", "check" (line 110), "do"
                 \* (line 115), "sleep" (lines 123 and 135), "returned"
    qi,          \* the loop variable i
    qwake,       \* the second at which the Sleep may end
    qnow,        \* the time, in seconds
    qctx,        \* the context of the call is cancelled
    qlog         \* history: the requests sent, the answers and the return,
                 \* each with its time

queryVars == <<qpc, qi, qwake, qnow, qctx, qlog>>

\* The functions of tron/address.go, called on one address.
VARIABLES
    decoded,     \* base58.Decode(address): a sequence of bytes
    out          \* what the function called last returned

addrVars == <<decoded, out>>

\* No function has been called on the address.
NoCall == [fn |-> "", ok |-> FALSE, err |-> "", text |-> <<>>]

\* The balance of an answer (tron/api.go, lines 203-237).
VARIABLES
    balanceHex,  \* constant_result[0]: a sequence of characters
    balance      \* what the parsing and formatDecimals returned

formatVars == <<balanceHex, balance>>

\* Nothing has been formatted.
NoBalance == [text |-> <<>>, err |-> ""]

\* The window of the program (gui/view.go): what pausing and continuing a
\* query keep.
VARIABLES
    gui,                 \* "idle", "querying", "pausing", "paused",
                         \* "resumed" or "finished"
    lastProgress,        \* lastProgress.current
    pausedTotalProgress, \* the index saved by the pause button
    resultData           \* the table of results when the query was paused

guiVars == <<gui, lastProgress, pausedTotalProgress, resultData>>

\* History of the calls of QueryAddresses on one QueryManager.
VARIABLES
    runNo,            \* the calls of QueryAddresses made so far
    cancelledAtStart, \* Cancel had been called when the latest one began
    usedAtStart       \* totalUsed when the latest one began

callVars == <<runNo, cancelledAtStart, usedAtStart>>

vars == <<keys, current, totalUsed, mu, ledger, saveSpawned, saveSnaps, ret,
          addresses, results, ctxDone, maxConcurrent, pcMain, nextJob,
          jobsClosed, completedCount, wpc, widx, wtry, wcur, wkey,
          requested, progressLog, cancelSnap, wcalls, wsent, wlast, aborted,
          wlim, rateAsked, wburst,
          rate, tokens, lastRefill, clock, lpc, wake, lret,
          qpc, qi, qwake, qnow, qctx, qlog,
          decoded, out,
          balanceHex, balance,
          gui, lastProgress, pausedTotalProgress, resultData,
          runNo, cancelledAtStart, usedAtStart>>

\* The upper clamp of SetMaxConcurrent (line 48).
MaxConcurrentLimit == 50
\* maxRetries of QueryBalanceWithContext (line 109).
maxRetries == 3

\* The i-th address of a list: addresses are told apart by their position.
Addr(i) == 100 + i

\* Error texts of QueryResult.  The texts of the errors that
\* QueryBalanceWithContext returns are kept in wlast; the result table
\* holds them as one value.
MsgNoKey     == "no API key available"
MsgCancelled == "cancelled"
MsgQuery     == "query error"
KeyFailedMsg(e) ==
    CASE e = ErrEmpty     -> "get API key failed: no API key available"
      [] e = ErrOneUsedUp -> "get API key failed: API key reached its limit"
      [] e = ErrAllUsedUp -> "get API key failed: all API keys reached their limit"

\* The balance text of the server's answer (constant_result of zero).
BalanceText == "0"

Pending(a)   == [Address |-> a, Balance |-> "", Status |-> "pending", Error |-> ""]
Failed(a, e) == [Address |-> a, Balance |-> "", Status |-> "error", Error |-> e]
Cancelled(a) == [Address |-> a, Balance |-> "", Status |-> "cancelled", Error |-> MsgCancelled]
SuccessWithoutBalance(a, b) == [Address |-> a, Balance |-> "", Status |-> "success", Error |-> ""]

Success(a, b) == [Address |-> a, Balance |-> b, Status |-> "success", Error |-> ""]

Workers == DOMAIN wpc
N == Len(addresses)

(***************************************************************************)
(* SetMaxConcurrent, Cancel, GetStats.                                     *)
(***************************************************************************)
ClampHighOnly(max) == IF max > MaxConcurrentLimit THEN MaxConcurrentLimit ELSE max

\* Lines 45-50.
ClampConcurrent(max) ==
    IF max < 1 THEN 1
    ELSE IF max > MaxConcurrentLimit THEN MaxConcurrentLimit ELSE max

\* The capacity of the limiter NewAPIClient makes.  The program's value is
\* 12 (api.go:41); the model scales it down, to no less than maxRetries, so
\* that the requests of two queries exceed it and those of one do not.
DefaultRate == 3

\* NewRateLimiter (part_000, lines 19-27), the time of the refill left out.
NewRateLimiter(r) == [rate |-> r, tokens |-> r]

\* The limiter of NewAPIClient (api.go:41).
NewAPIClient == NewRateLimiter(DefaultRate)

\* A worker that has no client.
NoClient == [rate |-> 0, tokens |-> 0]

\* Wait on a limiter just made (api.go:69): no interval has passed, so
\* nothing is added (part_000:38-39); with a token there, Wait takes it and
\* returns at once (lines 49 and 68).
WaitOnNew(l) == [l EXCEPT !.tokens = @ - 1]

\* time.Sleep is called after the answer resp to the attempt of loop
\* index i (api.go:120-123 and 130-136).
Sleeps(resp, i) ==
    \/ resp = "429"
    \/ resp \in {"transport", "context"} /\ i < maxRetries - 1

\* The rates given to SetRateLimit.
RateInputs == {1}

\* Lines 57-59: the body is empty.
SetRateLimit ==
    \E r \in RateInputs :
        /\ pcMain = "idle"
        /\ rateAsked' = r
        /\ UNCHANGED <<addresses, results, ctxDone, maxConcurrent, pcMain, nextJob,
                       jobsClosed, completedCount, workerVars, requested,
                       progressLog, cancelSnap, aborted, wlim, wburst>>
        /\ UNCHANGED poolVars

ConcurrencyInputs == (-1..(MaxWorkers + 1)) \cup {MaxConcurrentLimit, MaxConcurrentLimit + 1}

SetMaxConcurrent ==
    \E max \in ConcurrencyInputs :
        /\ pcMain = "idle"
        /\ maxConcurrent' = ClampConcurrent(max)
        /\ requested' = [set |-> TRUE, max |-> max]
        /\ UNCHANGED <<addresses, results, ctxDone, pcMain, nextJob, jobsClosed,
                       completedCount, workerVars, progressLog, cancelSnap, aborted>>
        /\ UNCHANGED poolVars
        /\ UNCHANGED clientVars

\* The indices whose result is terminal.
Terminal(res) == {i \in 1..Len(res) : res[i].Status # "pending"}

\* Line 223.  The context is made once, in NewQueryManager (line 31).
Cancel ==
    /\ ctxDone' = TRUE
    /\ cancelSnap' = IF ctxDone THEN cancelSnap
                     ELSE [called |-> TRUE, pc |-> pcMain, nextJob |-> nextJob,
                           terminal |-> Terminal(results)]
    /\ UNCHANGED <<addresses, results, maxConcurrent, pcMain, nextJob, jobsClosed,
                   completedCount, workerVars, requested, progressLog, aborted>>
    /\ UNCHANGED poolVars
    /\ UNCHANGED clientVars

CountStatus(res, st) == Cardinality({i \in 1..Len(res) : res[i].Status = st})

GetStatsWithoutFailed ==
    [total |-> Len(results),
     success |-> CountStatus(results, "success"),
     failed |-> 0]

\* Lines 237-245.
GetStats ==
    [total |-> Len(results),
     success |-> CountStatus(results, "success"),
     failed |-> CountStatus(results, "error")]

(***************************************************************************)
(* QueryAddresses: entry, the sender of jobs, the return.                  *)
(***************************************************************************)
NoEmptyPoolCheck(ks) == FALSE

\* The test of line 79 on GetKeyCount.
PoolIsEmpty(ks) == Len(ks) = 0

\* Lines 62-105: the table of results, the empty-pool return, the workers.
RunStarts(addrs) ==
    LET n == Len(addrs) IN
    /\ addresses' = addrs
    /\ IF PoolIsEmpty(keys)
       THEN /\ results' = [i \in 1..n |-> Failed(addrs[i], MsgNoKey)]
            /\ progressLog' = [k \in 0..n |-> IF k = n THEN 1 ELSE 0]
            /\ pcMain' = "done"
            /\ UNCHANGED <<nextJob, jobsClosed, completedCount, workerVars,
                           wlim, wburst>>
       ELSE /\ results' = [i \in 1..n |-> Pending(addrs[i])]
            /\ progressLog' = [k \in 0..n |-> 0]
            /\ pcMain' = "running"
            /\ nextJob' = 1
            /\ jobsClosed' = (n = 0)
            /\ completedCount' = 0
            /\ wpc' = [w \in 1..maxConcurrent |-> "recv"]
            /\ widx' = [w \in 1..maxConcurrent |-> 0]
            /\ wtry' = [w \in 1..maxConcurrent |-> 0]
            /\ wcur' = [w \in 1..maxConcurrent |-> 0]
            /\ wkey' = [w \in 1..maxConcurrent |-> ""]
            /\ wcalls' = [w \in 1..maxConcurrent |-> 0]
            /\ wsent' = [w \in 1..maxConcurrent |-> 0]
            /\ wlast' = [w \in 1..maxConcurrent |-> ""]
            /\ wlim' = [w \in 1..maxConcurrent |-> NoClient]
            /\ wburst' = [w \in 1..maxConcurrent |-> 0]

QueryAddresses ==
    \E n \in 0..MaxAddrs :
        /\ pcMain = "idle"
        /\ maxConcurrent <= MaxWorkers
        /\ maxConcurrent = 1 \/ n * maxConcurrent <= MaxLoad
        /\ RunStarts([i \in 1..n |-> Addr(i)])
        /\ UNCHANGED <<ctxDone, maxConcurrent, requested, cancelSnap, aborted>>
        /\ UNCHANGED poolVars
        /\ UNCHANGED rateAsked

SameJobAgain(i) == i

\* The sender's loop step (line 193).
NextJobAfter(i) == i + 1

\* A worker receives the index the sender offers (lines 108 and 199); after
\* the last index the sender leaves its loop and closes the channel.
Receive(w) ==
    /\ pcMain = "running"
    /\ wpc[w] = "recv"
    /\ ~jobsClosed
    /\ nextJob <= N
    /\ widx' = [widx EXCEPT ![w] = nextJob]
    /\ wpc' = [wpc EXCEPT ![w] = "claimed"]
    /\ nextJob' = NextJobAfter(nextJob)
    /\ jobsClosed' = (NextJobAfter(nextJob) > N)
    /\ UNCHANGED <<addresses, results, ctxDone, maxConcurrent, pcMain, completedCount,
                   wtry, wcur, wkey, requested, progressLog, cancelSnap,
                   wcalls, wsent, wlast, aborted>>
    /\ UNCHANGED poolVars
    /\ UNCHANGED clientVars

\* The sender takes the Done case of its select (lines 196-198).
SenderStops ==
    /\ pcMain = "running"
    /\ ~jobsClosed
    /\ ctxDone
    /\ jobsClosed' = TRUE
    /\ UNCHANGED <<addresses, results, ctxDone, maxConcurrent, pcMain, nextJob,
                   completedCount, workerVars, requested, progressLog, cancelSnap, aborted>>
    /\ UNCHANGED poolVars
    /\ UNCHANGED clientVars

\* A worker finds the channel closed and leaves (lines 107-108).
WorkerExits(w) ==
    /\ pcMain = "running"
    /\ wpc[w] = "recv"
    /\ jobsClosed
    /\ wpc' = [wpc EXCEPT ![w] = "exit"]
    /\ UNCHANGED <<addresses, results, ctxDone, maxConcurrent, pcMain, nextJob,
                   jobsClosed, completedCount, widx, wtry, wcur, wkey, requested,
                   progressLog, cancelSnap, wcalls, wsent, wlast, aborted>>
    /\ UNCHANGED poolVars
    /\ UNCHANGED clientVars

\* wg.Wait() returns (line 206).
Return ==
    /\ pcMain = "running"
    /\ \A w \in Workers : wpc[w] = "exit"
    /\ pcMain' = "done"
    /\ UNCHANGED <<addresses, results, ctxDone, maxConcurrent, nextJob, jobsClosed,
                   completedCount, workerVars, requested, progressLog, cancelSnap, aborted>>
    /\ UNCHANGED poolVars
    /\ UNCHANGED clientVars

(***************************************************************************)
(* The worker's loop body.                                                 *)
(***************************************************************************)
QueryFailedAsCancelled(a) == Cancelled(a)

\* Lines 163-168: the result written when QueryBalanceWithContext fails.
QueryFailed(a) == Failed(a, MsgQuery)

ContextErrIgnored(done) == FALSE

\* Line 112: req.Context().Err() != nil.
ContextErr(done) == done

CountNotRaised(c) == c

\* completedCount++ (lines 121, 143 and 180).
CountRaised(c) == c + 1

\* The worker w writes its result and goes on to the progress update.
Finish(w, r, how) ==
    /\ results' = [results EXCEPT ![widx[w]] = r]
    /\ wlast' = [wlast EXCEPT ![w] = how]
    /\ wpc' = [wpc EXCEPT ![w] = "count"]

\* Lines 110-129.
CheckCancel(w) ==
    /\ wpc[w] = "claimed"
    /\ IF ctxDone
       THEN Finish(w, Cancelled(addresses[widx[w]]), "marked cancelled")
       ELSE /\ wpc' = [wpc EXCEPT ![w] = "getkey"]
            /\ UNCHANGED <<results, wlast>>
    /\ UNCHANGED <<addresses, ctxDone, maxConcurrent, pcMain, nextJob, jobsClosed,
                   completedCount, widx, wtry, wcur, wkey, requested, progressLog,
                   cancelSnap, wcalls, wsent, aborted>>
    /\ UNCHANGED poolVars
    /\ UNCHANGED clientVars

\* Lines 132-156 and, in QueryBalanceWithContext, lines 69-102: the key is
\* taken, the client and its limiter are made, Wait takes one of the fresh
\* limiter's tokens, and the address is converted.
GetKey(w) ==
    /\ wpc[w] = "getkey"
    /\ SelectKey
    /\ wcalls' = [wcalls EXCEPT ![w] = @ + 1]
    /\ LET r == NextKey(keys, current) IN
       IF ~r.ok
       THEN /\ Finish(w, Failed(addresses[widx[w]], KeyFailedMsg(r.err)), "no key")
            /\ UNCHANGED <<wkey, wtry, wlim>>
       ELSE /\ wkey' = [wkey EXCEPT ![w] = r.key]
            /\ wlim' = [wlim EXCEPT ![w] = WaitOnNew(NewAPIClient)]
            /\ \E convertible \in BOOLEAN :
                 IF convertible
                 THEN /\ wpc' = [wpc EXCEPT ![w] = "attempt"]
                      /\ wtry' = [wtry EXCEPT ![w] = 0]
                      /\ UNCHANGED <<results, wlast>>
                 ELSE /\ Finish(w, QueryFailed(addresses[widx[w]]), "address conversion failed")
                      /\ UNCHANGED wtry
    /\ UNCHANGED <<addresses, ctxDone, maxConcurrent, pcMain, nextJob, jobsClosed,
                   completedCount, widx, wcur, requested, progressLog, cancelSnap,
                   wsent, aborted, rateAsked, wburst>>

\* Lines 110-115: the loop test, the check of the context, and Do.
Attempt(w) ==
    /\ wpc[w] = "attempt"
    /\ IF ContextErr(ctxDone)
       THEN /\ Finish(w, QueryFailed(addresses[widx[w]]), "request cancelled")
            /\ UNCHANGED <<wsent, wburst>>
       ELSE /\ wpc' = [wpc EXCEPT ![w] = "inflight"]
            /\ wsent' = [wsent EXCEPT ![w] = @ + 1]
            /\ wburst' = [wburst EXCEPT ![w] = @ + 1]
            /\ UNCHANGED <<results, wlast>>
    /\ UNCHANGED <<addresses, ctxDone, maxConcurrent, pcMain, nextJob, jobsClosed,
                   completedCount, widx, wtry, wcur, wkey, requested, progressLog,
                   cancelSnap, wcalls, aborted>>
    /\ UNCHANGED poolVars
    /\ UNCHANGED <<wlim, rateAsked>>

\* What Do can return: an answer of the server, a transport failure, or,
\* the request being bound to the context (line 94), the context's error.
Responses == {"200 ok", "200 bad", "429", "500", "transport"}

\* A retry that starts the query of the address again, with a new key.
QueryAgain(i) == "getkey"

\* Lines 110, 127 and 138: after the answer to attempt i the loop goes on
\* with the same request (req of line 94, with the key of line 99).
LoopAgain(i) == "attempt"

\* Lines 116-149 (and 151-220 for the body of a 200 answer).
Response(w) ==
    /\ wpc[w] = "inflight"
    /\ \E resp \in Responses \cup (IF ctxDone THEN {"context"} ELSE {}) :
        /\ aborted' = (aborted \/ resp = "context")
        /\ wburst' = IF Sleeps(resp, wtry[w]) THEN [v \in Workers |-> 0] ELSE wburst
        /\ CASE resp = "200 ok" ->
                  /\ Finish(w, Success(addresses[widx[w]], BalanceText), "balance")
                  /\ UNCHANGED wtry
             [] resp = "200 bad" ->
                  /\ Finish(w, QueryFailed(addresses[widx[w]]), "query failed")
                  /\ UNCHANGED wtry
             [] resp \in {"429", "500"} ->
                  /\ wtry' = [wtry EXCEPT ![w] = @ + 1]
                  /\ IF wtry[w] + 1 < maxRetries
                     THEN /\ wpc' = [wpc EXCEPT ![w] = LoopAgain(wtry[w])]
                          /\ UNCHANGED <<results, wlast>>
                     ELSE Finish(w, QueryFailed(addresses[widx[w]]), "HTTP status")
             [] resp \in {"transport", "context"} ->
                  /\ wtry' = [wtry EXCEPT ![w] = @ + 1]
                  /\ IF wtry[w] < maxRetries - 1
                     THEN /\ wpc' = [wpc EXCEPT ![w] = LoopAgain(wtry[w])]
                          /\ UNCHANGED <<results, wlast>>
                     ELSE Finish(w, QueryFailed(addresses[widx[w]]), "request failed")
    /\ UNCHANGED <<addresses, ctxDone, maxConcurrent, pcMain, nextJob, jobsClosed,
                   completedCount, widx, wcur, wkey, requested, progressLog,
                   cancelSnap, wcalls, wsent>>
    /\ UNCHANGED poolVars
    /\ UNCHANGED <<wlim, rateAsked>>

\* Lines 120-123, 142-145 and 179-182.
CountCompleted(w) ==
    /\ wpc[w] = "count"
    /\ completedCount' = CountRaised(completedCount)
    /\ wcur' = [wcur EXCEPT ![w] = CountRaised(completedCount)]
    /\ wpc' = [wpc EXCEPT ![w] = "notify"]
    /\ UNCHANGED <<addresses, results, ctxDone, maxConcurrent, pcMain, nextJob,
                   jobsClosed, widx, wtry, wkey, requested, progressLog, cancelSnap,
                   wcalls, wsent, wlast, aborted>>
    /\ UNCHANGED poolVars
    /\ UNCHANGED clientVars

\* Lines 124-127, 146-149 and 183-185: the callback, and back to the range.
Notify(w) ==
    /\ wpc[w] = "notify"
    /\ progressLog' = [progressLog EXCEPT ![wcur[w]] = @ + 1]
    /\ wpc' = [wpc EXCEPT ![w] = "recv"]
    /\ widx' = [widx EXCEPT ![w] = 0]
    /\ wtry' = [wtry EXCEPT ![w] = 0]
    /\ wcur' = [wcur EXCEPT ![w] = 0]
    /\ wkey' = [wkey EXCEPT ![w] = ""]
    /\ wcalls' = [wcalls EXCEPT ![w] = 0]
    /\ wsent' = [wsent EXCEPT ![w] = 0]
    /\ wlast' = [wlast EXCEPT ![w] = ""]
    /\ wlim' = [wlim EXCEPT ![w] = NoClient]
    /\ wburst' = [wburst EXCEPT ![w] = 0]
    /\ UNCHANGED <<addresses, results, ctxDone, maxConcurrent, pcMain, nextJob,
                   jobsClosed, completedCount, requested, cancelSnap, aborted>>
    /\ UNCHANGED poolVars
    /\ UNCHANGED rateAsked

(***************************************************************************)
(* The specifications.                                                     *)
(***************************************************************************)
InitRun ==
    /\ addresses = <<>>
    /\ results = <<>>
    /\ ctxDone = FALSE
    /\ maxConcurrent = 1
    /\ pcMain = "idle"
    /\ nextJob = 1
    /\ jobsClosed = FALSE
    /\ completedCount = 0
    /\ wpc = <<>>
    /\ widx = <<>>
    /\ wtry = <<>>
    /\ wcur = <<>>
    /\ wkey = <<>>
    /\ requested = [set |-> FALSE, max |-> 0]
    /\ progressLog = [k \in {0} |-> 0]
    /\ cancelSnap = [called |-> FALSE, pc |-> "idle", nextJob |-> 1, terminal |-> {}]
    /\ wcalls = <<>>
    /\ wsent = <<>>
    /\ wlast = <<>>
    /\ aborted = FALSE
    /\ wlim = <<>>
    /\ rateAsked = 0
    /\ wburst = <<>>

\* The ledger at start: no file, or the file an earlier run left behind
\* with k1 used up and k2 one selection short of it.
Ledgers == {EmptyStats,
            [k \in KeySet |-> IF k = "k1" THEN MaxQueriesPerKey ELSE MaxQueriesPerKey - 1]}

\* The pool alone: any sequence of its operations.
GetNextKey ==
    /\ NextKey(keys, current).ok => totalUsed < MaxTotalUsed
    /\ SelectKey

NextPool ==
    \/ LoadKeysFromFile /\ UNCHANGED <<runVars, limVars, queryVars, addrVars, formatVars, guiVars, callVars>>
    \/ LoadStatsIfExists /\ UNCHANGED <<runVars, limVars, queryVars, addrVars, formatVars, guiVars, callVars>>
    \/ GetNextKey /\ UNCHANGED <<runVars, limVars, queryVars, addrVars, formatVars, guiVars, callVars>>
    \/ RemoveKey /\ UNCHANGED <<runVars, limVars, queryVars, addrVars, formatVars, guiVars, callVars>>
    \/ RemoveKeysByUsageThreshold /\ UNCHANGED <<runVars, limVars, queryVars, addrVars, formatVars, guiVars, callVars>>
    \/ SaveSnapshot /\ UNCHANGED <<runVars, limVars, queryVars, addrVars, formatVars, guiVars, callVars>>
    \/ SaveWrite /\ UNCHANGED <<runVars, limVars, queryVars, addrVars, formatVars, guiVars, callVars>>

\* A fresh manager (NewAPIKeyManager) beside a ledger file; no query runs.
InitAlone ==
    /\ keys = <<>>
    /\ current = 0
    /\ totalUsed = 0
    /\ mu = "free"
    /\ ledger \in Ledgers
    /\ saveSpawned = 0
    /\ saveSnaps = {}
    /\ ret = [key |-> "", err |-> ErrNone, n |-> 0]
    /\ InitRun
    /\ rate = 1
    /\ tokens = 1
    /\ lastRefill = 0
    /\ clock = 0
    /\ lpc = <<>>
    /\ wake = <<>>
    /\ lret = <<>>
    /\ qpc = "none"
    /\ qi = 0
    /\ qwake = 0
    /\ qnow = 0
    /\ qctx = FALSE
    /\ qlog = <<>>
    /\ decoded = <<>>
    /\ out = NoCall
    /\ balanceHex = <<>>
    /\ balance = NoBalance
    /\ gui = "idle"
    /\ lastProgress = 0
    /\ pausedTotalProgress = 0
    /\ resultData = <<>>
    /\ runNo = 0
    /\ cancelledAtStart = FALSE
    /\ usedAtStart = 0

SpecPool == InitAlone /\ [][NextPool]_vars

\* The pools a run starts with: none loaded; one key, unused; one key, one
\* selection short of its limit; two keys, the second one selection short
\* of its limit.
StartPools == {<<>>,
               <<APIKeyInfo("k1", 0)>>,
               <<APIKeyInfo("k1", MaxQueriesPerKey - 1)>>,
               <<APIKeyInfo("k1", 0), APIKeyInfo("k2", MaxQueriesPerKey - 1)>>}

Init ==
    /\ InitRun
    /\ keys \in StartPools
    /\ current = 0
    /\ totalUsed = 0
    /\ mu = "free"
    /\ ledger = StatsOf(keys)
    /\ saveSpawned = 0
    /\ saveSnaps = {}
    /\ ret = [key |-> "", err |-> ErrNone, n |-> 0]
    /\ rate = 1
    /\ tokens = 1
    /\ lastRefill = 0
    /\ clock = 0
    /\ lpc = <<>>
    /\ wake = <<>>
    /\ lret = <<>>
    /\ qpc = "none"
    /\ qi = 0
    /\ qwake = 0
    /\ qnow = 0
    /\ qctx = FALSE
    /\ qlog = <<>>
    /\ decoded = <<>>
    /\ out = NoCall
    /\ balanceHex = <<>>
    /\ balance = NoBalance
    /\ gui = "idle"
    /\ lastProgress = 0
    /\ pausedTotalProgress = 0
    /\ resultData = <<>>
    /\ runNo = 0
    /\ cancelledAtStart = FALSE
    /\ usedAtStart = 0

Next ==
    \/ SetMaxConcurrent /\ UNCHANGED <<limVars, queryVars, addrVars, formatVars, guiVars, callVars>>
    \/ SetRateLimit /\ UNCHANGED <<limVars, queryVars, addrVars, formatVars, guiVars, callVars>>
    \/ Cancel /\ UNCHANGED <<limVars, queryVars, addrVars, formatVars, guiVars, callVars>>
    \/ QueryAddresses /\ UNCHANGED <<limVars, queryVars, addrVars, formatVars, guiVars, callVars>>
    \/ SenderStops /\ UNCHANGED <<limVars, queryVars, addrVars, formatVars, guiVars, callVars>>
    \/ Return /\ UNCHANGED <<limVars, queryVars, addrVars, formatVars, guiVars, callVars>>
    \/ (\E w \in Workers : Receive(w)) /\ UNCHANGED <<limVars, queryVars, addrVars, formatVars, guiVars, callVars>>
    \/ (\E w \in Workers : WorkerExits(w)) /\ UNCHANGED <<limVars, queryVars, addrVars, formatVars, guiVars, callVars>>
    \/ (\E w \in Workers : CheckCancel(w)) /\ UNCHANGED <<limVars, queryVars, addrVars, formatVars, guiVars, callVars>>
    \/ (\E w \in Workers : GetKey(w)) /\ UNCHANGED <<limVars, queryVars, addrVars, formatVars, guiVars, callVars>>
    \/ (\E w \in Workers : Attempt(w)) /\ UNCHANGED <<limVars, queryVars, addrVars, formatVars, guiVars, callVars>>
    \/ (\E w \in Workers : Response(w)) /\ UNCHANGED <<limVars, queryVars, addrVars, formatVars, guiVars, callVars>>
    \/ (\E w \in Workers : CountCompleted(w)) /\ UNCHANGED <<limVars, queryVars, addrVars, formatVars, guiVars, callVars>>
    \/ (\E w \in Workers : Notify(w)) /\ UNCHANGED <<limVars, queryVars, addrVars, formatVars, guiVars, callVars>>

Spec == Init /\ [][Next]_vars

(***************************************************************************)
(* Pausing and continuing a query in the window (gui/view.go).  Each query *)
(* runs on a QueryManager of its own (line 860).                           *)
(***************************************************************************)
\* The longest list of addresses given to the window.
MaxPausedAddrs == 3

\* queryBtn.OnTapped, new query (lines 795-980): the list is not empty and
\* the pool has a key.
StartQuery ==
    /\ gui = "idle"
    /\ ~PoolIsEmpty(keys)
    /\ QueryAddresses
    /\ Len(addresses') \in 1..MaxPausedAddrs
    /\ gui' = "querying"
    /\ UNCHANGED <<lastProgress, pausedTotalProgress, resultData>>

\* The callback given to QueryAddresses (lines 896-909): the count of the
\* run, added to the offset when the query is a continued one.
ProgressCallback(w) ==
    /\ Notify(w)
    /\ lastProgress' = (IF gui = "resumed" THEN pausedTotalProgress ELSE 0) + wcur[w]
    /\ UNCHANGED <<gui, pausedTotalProgress, resultData>>

\* pauseBtn.OnTapped, lines 985-987: the query is cancelled.
PauseTapped ==
    /\ gui = "querying"
    /\ pcMain = "running"
    /\ Cancel
    /\ gui' = "pausing"
    /\ UNCHANGED <<lastProgress, pausedTotalProgress, resultData>>

\* pauseBtn.OnTapped, lines 989-1011, after a wait in which the run has
\* stopped: the addresses from index lastProgress.current on are kept.
PauseSaves ==
    /\ gui = "pausing"
    /\ pcMain = "done"
    /\ IF lastProgress < N
       THEN /\ pausedTotalProgress' = lastProgress
            /\ gui' = "paused"
       ELSE /\ pausedTotalProgress' = pausedTotalProgress
            /\ gui' = "finished"
    /\ resultData' = results
    /\ UNCHANGED lastProgress
    /\ UNCHANGED <<poolVars, runVars>>

\* The addresses kept by the pause button: currentQueryAddrs[currentProgress:].
pausedAddresses ==
    [i \in 1..(Len(resultData) - pausedTotalProgress) |->
        resultData[pausedTotalProgress + i].Address]

\* queryBtn.OnTapped, continued query (lines 805-813 and 859-896): a new
\* QueryManager, with a context of its own, runs the kept addresses.
ResumeTapped ==
    /\ gui = "paused"
    /\ ~PoolIsEmpty(keys)
    /\ RunStarts(pausedAddresses)
    /\ ctxDone' = FALSE
    /\ gui' = "resumed"
    /\ UNCHANGED <<maxConcurrent, requested, cancelSnap, aborted, rateAsked>>
    /\ UNCHANGED poolVars
    /\ UNCHANGED <<lastProgress, pausedTotalProgress, resultData>>

\* Lines 913-919 and 949-955: the results of the continued run are put
\* into the table from the saved index on.
MergedResults ==
    [i \in 1..Len(resultData) |->
        IF i <= pausedTotalProgress THEN resultData[i]
        ELSE results[i - pausedTotalProgress]]

\* The pools of the window: two keys with three selections left.
ResumePools == {<<APIKeyInfo("k1", 0), APIKeyInfo("k2", MaxQueriesPerKey - 1)>>}

InitResume ==
    /\ InitRun
    /\ keys \in ResumePools
    /\ current = 0
    /\ totalUsed = 0
    /\ mu = "free"
    /\ ledger = StatsOf(keys)
    /\ saveSpawned = 0
    /\ saveSnaps = {}
    /\ ret = [key |-> "", err |-> ErrNone, n |-> 0]
    /\ rate = 1
    /\ tokens = 1
    /\ lastRefill = 0
    /\ clock = 0
    /\ lpc = <<>>
    /\ wake = <<>>
    /\ lret = <<>>
    /\ qpc = "none"
    /\ qi = 0
    /\ qwake = 0
    /\ qnow = 0
    /\ qctx = FALSE
    /\ qlog = <<>>
    /\ decoded = <<>>
    /\ out = NoCall
    /\ balanceHex = <<>>
    /\ balance = NoBalance
    /\ gui = "idle"
    /\ lastProgress = 0
    /\ pausedTotalProgress = 0
    /\ resultData = <<>>
    /\ runNo = 0
    /\ cancelledAtStart = FALSE
    /\ usedAtStart = 0

NextResume ==
    \/ SetMaxConcurrent /\ UNCHANGED <<limVars, queryVars, addrVars, formatVars, guiVars, callVars>>
    \/ StartQuery /\ UNCHANGED <<limVars, queryVars, addrVars, formatVars, callVars>>
    \/ PauseTapped /\ UNCHANGED <<limVars, queryVars, addrVars, formatVars, callVars>>
    \/ PauseSaves /\ UNCHANGED <<limVars, queryVars, addrVars, formatVars, callVars>>
    \/ ResumeTapped /\ UNCHANGED <<limVars, queryVars, addrVars, formatVars, callVars>>
    \/ SenderStops /\ UNCHANGED <<limVars, queryVars, addrVars, formatVars, guiVars, callVars>>
    \/ Return /\ UNCHANGED <<limVars, queryVars, addrVars, formatVars, guiVars, callVars>>
    \/ (\E w \in Workers : Receive(w)) /\ UNCHANGED <<limVars, queryVars, addrVars, formatVars, guiVars, callVars>>
    \/ (\E w \in Workers : WorkerExits(w)) /\ UNCHANGED <<limVars, queryVars, addrVars, formatVars, guiVars, callVars>>
    \/ (\E w \in Workers : CheckCancel(w)) /\ UNCHANGED <<limVars, queryVars, addrVars, formatVars, guiVars, callVars>>
    \/ (\E w \in Workers : GetKey(w)) /\ UNCHANGED <<limVars, queryVars, addrVars, formatVars, guiVars, callVars>>
    \/ (\E w \in Workers : Attempt(w)) /\ UNCHANGED <<limVars, queryVars, addrVars, formatVars, guiVars, callVars>>
    \/ (\E w \in Workers : Response(w)) /\ UNCHANGED <<limVars, queryVars, addrVars, formatVars, guiVars, callVars>>
    \/ (\E w \in Workers : CountCompleted(w)) /\ UNCHANGED <<limVars, queryVars, addrVars, formatVars, guiVars, callVars>>
    \/ (\E w \in Workers : ProgressCallback(w)) /\ UNCHANGED <<limVars, queryVars, addrVars, formatVars, callVars>>

SpecResume == InitResume /\ [][NextResume]_vars

(***************************************************************************)
(* A run under fair scheduling, beside the removal of a key from the pool  *)
(* the run takes its keys from (the delete button of the window stays      *)
(* enabled during a query: gui/view.go, lines 180-226).                    *)
(***************************************************************************)
\* The longest list of addresses of a fair run.
MaxFairAddrs == 2

\* QueryAddresses on a list of at most MaxFairAddrs addresses.
QueryFewAddresses ==
    /\ QueryAddresses
    /\ Len(addresses') <= MaxFairAddrs

\* One step of the goroutine of worker w (lines 105-187).
WorkerStep(w) ==
    /\ w \in Workers
    /\ \/ Receive(w)
       \/ WorkerExits(w)
       \/ CheckCancel(w)
       \/ GetKey(w)
       \/ Attempt(w)
       \/ Response(w)
       \/ CountCompleted(w)
       \/ Notify(w)

InitFair ==
    /\ InitRun
    /\ keys \in ResumePools
    /\ current = 0
    /\ totalUsed = 0
    /\ mu = "free"
    /\ ledger = StatsOf(keys)
    /\ saveSpawned = 0
    /\ saveSnaps = {}
    /\ ret = [key |-> "", err |-> ErrNone, n |-> 0]
    /\ rate = 1
    /\ tokens = 1
    /\ lastRefill = 0
    /\ clock = 0
    /\ lpc = <<>>
    /\ wake = <<>>
    /\ lret = <<>>
    /\ qpc = "none"
    /\ qi = 0
    /\ qwake = 0
    /\ qnow = 0
    /\ qctx = FALSE
    /\ qlog = <<>>
    /\ decoded = <<>>
    /\ out = NoCall
    /\ balanceHex = <<>>
    /\ balance = NoBalance
    /\ gui = "idle"
    /\ lastProgress = 0
    /\ pausedTotalProgress = 0
    /\ resultData = <<>>
    /\ runNo = 0
    /\ cancelledAtStart = FALSE
    /\ usedAtStart = 0

NextFair ==
    \/ SetMaxConcurrent /\ UNCHANGED <<limVars, queryVars, addrVars, formatVars, guiVars, callVars>>
    \/ Cancel /\ UNCHANGED <<limVars, queryVars, addrVars, formatVars, guiVars, callVars>>
    \/ QueryFewAddresses /\ UNCHANGED <<limVars, queryVars, addrVars, formatVars, guiVars, callVars>>
    \/ RemoveKey /\ UNCHANGED <<runVars, limVars, queryVars, addrVars, formatVars, guiVars, callVars>>
    \/ SenderStops /\ UNCHANGED <<limVars, queryVars, addrVars, formatVars, guiVars, callVars>>
    \/ Return /\ UNCHANGED <<limVars, queryVars, addrVars, formatVars, guiVars, callVars>>
    \/ (\E w \in Workers : WorkerStep(w)) /\ UNCHANGED <<limVars, queryVars, addrVars, formatVars, guiVars, callVars>>

\* Every goroutine of the run that can take a step takes one in the end:
\* each worker (an attempt in flight returns), the sender, and wg.Wait.
Fairness ==
    /\ \A w \in 1..MaxWorkers :
          WF_vars(WorkerStep(w) /\ UNCHANGED <<limVars, queryVars, addrVars, formatVars, guiVars, callVars>>)
    /\ WF_vars(SenderStops /\ UNCHANGED <<limVars, queryVars, addrVars, formatVars, guiVars, callVars>>)
    /\ WF_vars(Return /\ UNCHANGED <<limVars, queryVars, addrVars, formatVars, guiVars, callVars>>)

SpecFair == InitFair /\ [][NextFair]_vars /\ Fairness

(***************************************************************************)
(* Several calls of QueryAddresses on one QueryManager, whose context is   *)
(* made once, in NewQueryManager (query.go, lines 30-41).                  *)
(***************************************************************************)
\* The calls of QueryAddresses made on the manager.
MaxRuns == 2

\* The longest list of addresses of a call made before any Cancel.
MaxFreshAddrs == 1

\* The pools of the manager: no key, or two keys with three selections left.
RerunPools == {<<>>} \cup ResumePools

\* A call of QueryAddresses that makes a context of its own.
CallQueryAddressesNewContext ==
    \E n \in 0..MaxFairAddrs :
        /\ pcMain \in {"idle", "done"}
        /\ runNo < MaxRuns
        /\ ctxDone \/ n <= MaxFreshAddrs
        /\ maxConcurrent <= MaxWorkers
        /\ RunStarts([i \in 1..n |-> Addr(i)])
        /\ runNo' = runNo + 1
        /\ cancelledAtStart' = ctxDone
        /\ usedAtStart' = totalUsed
        /\ ctxDone' = FALSE
        /\ UNCHANGED <<maxConcurrent, requested, cancelSnap, aborted>>
        /\ UNCHANGED poolVars
        /\ UNCHANGED rateAsked

\* A call of QueryAddresses, the first or a later one once the one before
\* has returned: results is made anew (lines 64-73), the context is not.
CallQueryAddresses ==
    \E n \in 0..MaxFairAddrs :
        /\ pcMain \in {"idle", "done"}
        /\ runNo < MaxRuns
        /\ ctxDone \/ n <= MaxFreshAddrs
        /\ maxConcurrent <= MaxWorkers
        /\ RunStarts([i \in 1..n |-> Addr(i)])
        /\ runNo' = runNo + 1
        /\ cancelledAtStart' = ctxDone
        /\ usedAtStart' = totalUsed
        /\ UNCHANGED <<ctxDone, maxConcurrent, requested, cancelSnap, aborted>>
        /\ UNCHANGED poolVars
        /\ UNCHANGED rateAsked

\* The numbers of workers of the manager.
WorkerCounts == {1, 2}

\* A manager on which SetMaxConcurrent has been called with one of these
\* numbers.
InitRerun ==
    /\ addresses = <<>>
    /\ results = <<>>
    /\ ctxDone = FALSE
    /\ maxConcurrent \in WorkerCounts
    /\ pcMain = "idle"
    /\ nextJob = 1
    /\ jobsClosed = FALSE
    /\ completedCount = 0
    /\ wpc = <<>>
    /\ widx = <<>>
    /\ wtry = <<>>
    /\ wcur = <<>>
    /\ wkey = <<>>
    /\ requested = [set |-> TRUE, max |-> maxConcurrent]
    /\ progressLog = [k \in {0} |-> 0]
    /\ cancelSnap = [called |-> FALSE, pc |-> "idle", nextJob |-> 1, terminal |-> {}]
    /\ wcalls = <<>>
    /\ wsent = <<>>
    /\ wlast = <<>>
    /\ aborted = FALSE
    /\ wlim = <<>>
    /\ rateAsked = 0
    /\ wburst = <<>>
    /\ keys \in RerunPools
    /\ current = 0
    /\ totalUsed = 0
    /\ mu = "free"
    /\ ledger = StatsOf(keys)
    /\ saveSpawned = 0
    /\ saveSnaps = {}
    /\ ret = [key |-> "", err |-> ErrNone, n |-> 0]
    /\ rate = 1
    /\ tokens = 1
    /\ lastRefill = 0
    /\ clock = 0
    /\ lpc = <<>>
    /\ wake = <<>>
    /\ lret = <<>>
    /\ qpc = "none"
    /\ qi = 0
    /\ qwake = 0
    /\ qnow = 0
    /\ qctx = FALSE
    /\ qlog = <<>>
    /\ decoded = <<>>
    /\ out = NoCall
    /\ balanceHex = <<>>
    /\ balance = NoBalance
    /\ gui = "idle"
    /\ lastProgress = 0
    /\ pausedTotalProgress = 0
    /\ resultData = <<>>
    /\ runNo = 0
    /\ cancelledAtStart = FALSE
    /\ usedAtStart = 0

NextRerun ==
    \/ Cancel /\ UNCHANGED <<limVars, queryVars, addrVars, formatVars, guiVars, callVars>>
    \/ CallQueryAddresses /\ UNCHANGED <<limVars, queryVars, addrVars, formatVars, guiVars>>
    \/ SenderStops /\ UNCHANGED <<limVars, queryVars, addrVars, formatVars, guiVars, callVars>>
    \/ Return /\ UNCHANGED <<limVars, queryVars, addrVars, formatVars, guiVars, callVars>>
    \/ (\E w \in Workers : WorkerStep(w)) /\ UNCHANGED <<limVars, queryVars, addrVars, formatVars, guiVars, callVars>>

SpecRerun == InitRerun /\ [][NextRerun]_vars

\* Selection alone, from the empty pool and the pools of one to three keys
\* that loads with a ledger and earlier selections leave: any counts up to
\* the limit, any cursor.
RotateKeys == <<"k1", "k2", "k3">>

RotatePools ==
    UNION {[1..n -> 0..MaxQueriesPerKey] : n \in 0..3}

InitRotate ==
    /\ \E used \in RotatePools :
         keys = [i \in DOMAIN used |-> APIKeyInfo(RotateKeys[i], used[i])]
    /\ current \in 0..2
    /\ current < Len(keys) \/ (keys = <<>> /\ current = 0)
    /\ totalUsed = 0
    /\ mu = "free"
    /\ ledger = EmptyStats
    /\ saveSpawned = 0
    /\ saveSnaps = {}
    /\ ret = [key |-> "", err |-> ErrNone, n |-> 0]
    /\ InitRun
    /\ rate = 1
    /\ tokens = 1
    /\ lastRefill = 0
    /\ clock = 0
    /\ lpc = <<>>
    /\ wake = <<>>
    /\ lret = <<>>
    /\ qpc = "none"
    /\ qi = 0
    /\ qwake = 0
    /\ qnow = 0
    /\ qctx = FALSE
    /\ qlog = <<>>
    /\ decoded = <<>>
    /\ out = NoCall
    /\ balanceHex = <<>>
    /\ balance = NoBalance
    /\ gui = "idle"
    /\ lastProgress = 0
    /\ pausedTotalProgress = 0
    /\ resultData = <<>>
    /\ runNo = 0
    /\ cancelledAtStart = FALSE
    /\ usedAtStart = 0

NextRotate ==
    \/ SelectKey /\ UNCHANGED <<runVars, limVars, queryVars, addrVars, formatVars, guiVars, callVars>>

SpecRotate == InitRotate /\ [][NextRotate]_vars

\* The ledger round trip: selections, saveStats and the two loads, on pools
\* of one or two distinct keys with any counts up to the limit.
LedgerKeys == {"k1", "k2", RawKey}

LedgerPools ==
    {ks \in UNION {[1..n -> [Key : LedgerKeys, Used : 0..MaxQueriesPerKey,
                             MaxLimit : {MaxQueriesPerKey}, Enabled : {TRUE}]] : n \in 1..2} :
        \A i, j \in DOMAIN ks : i # j => ks[i].Key # ks[j].Key}

\* A key file that lists the keys of the pool ks, in its order.
FileOf(ks) == [i \in DOMAIN ks |-> ks[i].Key]

\* saveStats called on its own, as lines 371, 402 and 434 call it.
SaveStats ==
    /\ mu = "free"
    /\ \E outcome \in {"written", "createFailed"} : ledger' = SaveNow(keys, outcome)
    /\ UNCHANGED <<keys, current, totalUsed, mu, saveSpawned, saveSnaps, ret>>

InitLedger ==
    /\ keys \in LedgerPools
    /\ current = 0
    /\ totalUsed = 0
    /\ mu = "free"
    /\ ledger = EmptyStats
    /\ saveSpawned = 0
    /\ saveSnaps = {}
    /\ ret = [key |-> "", err |-> ErrNone, n |-> 0]
    /\ InitRun
    /\ rate = 1
    /\ tokens = 1
    /\ lastRefill = 0
    /\ clock = 0
    /\ lpc = <<>>
    /\ wake = <<>>
    /\ lret = <<>>
    /\ qpc = "none"
    /\ qi = 0
    /\ qwake = 0
    /\ qnow = 0
    /\ qctx = FALSE
    /\ qlog = <<>>
    /\ decoded = <<>>
    /\ out = NoCall
    /\ balanceHex = <<>>
    /\ balance = NoBalance
    /\ gui = "idle"
    /\ lastProgress = 0
    /\ pausedTotalProgress = 0
    /\ resultData = <<>>
    /\ runNo = 0
    /\ cancelledAtStart = FALSE
    /\ usedAtStart = 0

NextLedger ==
    \/ GetNextKey /\ UNCHANGED <<runVars, limVars, queryVars, addrVars, formatVars, guiVars, callVars>>
    \/ SaveStats /\ UNCHANGED <<runVars, limVars, queryVars, addrVars, formatVars, guiVars, callVars>>
    \/ LoadKeysFrom({FileOf(keys)}) /\ UNCHANGED <<runVars, limVars, queryVars, addrVars, formatVars, guiVars, callVars>>
    \/ LoadKeysFromFile /\ UNCHANGED <<runVars, limVars, queryVars, addrVars, formatVars, guiVars, callVars>>
    \/ LoadKeysFromUnreadable /\ UNCHANGED <<runVars, limVars, queryVars, addrVars, formatVars, guiVars, callVars>>
    \/ LoadStatsIfExists /\ UNCHANGED <<runVars, limVars, queryVars, addrVars, formatVars, guiVars, callVars>>

SpecLedger == InitLedger /\ [][NextLedger]_vars

(***************************************************************************)
(* tron.RateLimiter (unnamed/part_000).                                    *)
(***************************************************************************)
\* The interval of the limiter, in ticks.
Interval == 2
\* The rates given to NewRateLimiter.
Rates == {1, 2}

Callers == DOMAIN lpc

\* maxTokens is set to rate and never changed (line 24).
maxTokens == rate

\* waitTime := rl.interval / time.Duration(rl.rate) (line 50).
waitTime == Interval \div rate

\* tokensToAdd := int(elapsed / rl.interval) * rl.rate (lines 38 and 58).
TokensToAdd(now) == ((now - lastRefill) \div Interval) * rate

Cap(t) == IF t > maxTokens THEN maxTokens ELSE t

\* The refill at the start of Wait (lines 35-46): tokens are added, and
\* lastRefill moves, when at least one whole interval has passed.
Refill(now) ==
    IF now - lastRefill > 0 /\ TokensToAdd(now) > 0
    THEN [tokens |-> Cap(tokens + TokensToAdd(now)), lastRefill |-> now]
    ELSE [tokens |-> tokens, lastRefill |-> lastRefill]

\* The refill after the sleep (lines 55-64): tokens are set to tokensToAdd,
\* and lastRefill moves, when any time has passed.
RefillAfterSleep(now) ==
    IF now - lastRefill > 0
    THEN [tokens |-> Cap(TokensToAdd(now)), lastRefill |-> now]
    ELSE [tokens |-> tokens, lastRefill |-> lastRefill]

\* Wait from Lock to its return or to the Unlock before the sleep
\* (lines 31-52 and 68).
WaitEnter(c) ==
    /\ lpc[c] = "idle"
    /\ LET r == Refill(clock) IN
         /\ lastRefill' = r.lastRefill
         /\ IF r.tokens <= 0
            THEN /\ tokens' = r.tokens
                 /\ lpc' = [lpc EXCEPT ![c] = "sleep"]
                 /\ wake' = [wake EXCEPT ![c] = clock + waitTime]
                 /\ UNCHANGED lret
            ELSE /\ tokens' = r.tokens - 1
                 /\ lret' = [lret EXCEPT ![clock] = @ + 1]
                 /\ UNCHANGED <<lpc, wake>>
    /\ UNCHANGED <<rate, clock>>

\* Wait from the Lock after the sleep to its return (lines 53-68).
WaitWake(c) ==
    /\ lpc[c] = "sleep"
    /\ clock >= wake[c]
    /\ LET r == RefillAfterSleep(clock) IN
         /\ lastRefill' = r.lastRefill
         /\ tokens' = r.tokens - 1
    /\ lpc' = [lpc EXCEPT ![c] = "idle"]
    /\ lret' = [lret EXCEPT ![clock] = @ + 1]
    /\ UNCHANGED <<rate, clock, wake>>

\* Time passes.
Tick ==
    /\ clock < MaxClock
    /\ clock' = clock + 1
    /\ UNCHANGED <<rate, tokens, lastRefill, lpc, wake, lret>>

\* NewRateLimiter (lines 19-27) and the goroutines that will call Wait.
InitLimiter ==
    /\ rate \in Rates
    /\ tokens = rate
    /\ lastRefill = 0
    /\ clock = 0
    /\ \E n \in 1..MaxCallers :
         /\ lpc = [c \in 1..n |-> "idle"]
         /\ wake = [c \in 1..n |-> 0]
    /\ lret = [t \in 0..MaxClock |-> 0]
    /\ keys = <<>>
    /\ current = 0
    /\ totalUsed = 0
    /\ mu = "free"
    /\ ledger = EmptyStats
    /\ saveSpawned = 0
    /\ saveSnaps = {}
    /\ ret = [key |-> "", err |-> ErrNone, n |-> 0]
    /\ InitRun
    /\ qpc = "none"
    /\ qi = 0
    /\ qwake = 0
    /\ qnow = 0
    /\ qctx = FALSE
    /\ qlog = <<>>
    /\ decoded = <<>>
    /\ out = NoCall
    /\ balanceHex = <<>>
    /\ balance = NoBalance
    /\ gui = "idle"
    /\ lastProgress = 0
    /\ pausedTotalProgress = 0
    /\ resultData = <<>>
    /\ runNo = 0
    /\ cancelledAtStart = FALSE
    /\ usedAtStart = 0

NextLimiter ==
    \/ (\E c \in Callers : WaitEnter(c)) /\ UNCHANGED <<poolVars, runVars, queryVars, addrVars, formatVars, guiVars, callVars>>
    \/ (\E c \in Callers : WaitWake(c)) /\ UNCHANGED <<poolVars, runVars, queryVars, addrVars, formatVars, guiVars, callVars>>
    \/ Tick /\ UNCHANGED <<poolVars, runVars, queryVars, addrVars, formatVars, guiVars, callVars>>

SpecLimiter == InitLimiter /\ [][NextLimiter]_vars

(***************************************************************************)
(* One call of QueryBalanceWithContext, with its waits (tron/api.go).      *)
(***************************************************************************)
Event(e, t) == [ev |-> e, at |-> t]

\* The call returns: the event is added and nothing more is done.
QReturn(e) ==
    /\ qpc' = "returned"
    /\ qlog' = Append(qlog, Event(e, qnow))

LoopForever(i) == TRUE

\* i < maxRetries (line 110).
LoopTest(i) == i < maxRetries

NoWait(i) == 0

\* time.Duration(i+1) * 2 * time.Second (line 122).
RateLimitedWait(i) == (i + 1) * 2

\* time.Duration(i+1) * time.Second (line 135).
TransportWait(i) == i + 1

\* Lines 69-109: the limiter, the parameter and the request.  The client's
\* limiter is new and lets the call pass (WaitOnNew).
QStart ==
    /\ qpc = "start"
    /\ \E convertible \in BOOLEAN :
         IF convertible
         THEN /\ qpc' = "check"
              /\ UNCHANGED qlog
         ELSE QReturn("error: address")
    /\ UNCHANGED <<qi, qwake, qnow, qctx>>

\* Lines 110-115: the loop test, the check of the context, and the request
\* handed to Do.  After the loop, lines 141-149: it is left without break
\* when the last attempt failed or was answered with a status other than
\* 200, and the call returns the error.
QCheck ==
    /\ qpc = "check"
    /\ IF ~LoopTest(qi) THEN QReturn("error: request failed")
       ELSE IF ContextErr(qctx) THEN QReturn("error: cancelled")
       ELSE /\ qpc' = "do"
            /\ qlog' = Append(qlog, Event("send", qnow))
    /\ UNCHANGED <<qi, qwake, qnow, qctx>>

\* Lines 115-138: Do returns, and the loop goes on, at once or after a
\* sleep; lines 141-220 when it is left by break.
QDo ==
    /\ qpc = "do"
    /\ \E resp \in Responses \cup (IF qctx THEN {"context"} ELSE {}) :
         LET answered == Append(qlog, Event(resp, qnow)) IN
         CASE resp = "200 ok" ->
                /\ qpc' = "returned"
                /\ qlog' = Append(answered, Event("balance", qnow))
                /\ UNCHANGED <<qi, qwake>>
           [] resp = "200 bad" ->
                /\ qpc' = "returned"
                /\ qlog' = Append(answered, Event("error: answer", qnow))
                /\ UNCHANGED <<qi, qwake>>
           [] resp = "429" ->
                /\ qpc' = "sleep"
                /\ qwake' = qnow + RateLimitedWait(qi)
                /\ qlog' = answered
                /\ UNCHANGED qi
           [] resp \in {"transport", "context"} ->
                /\ qlog' = answered
                /\ IF qi < maxRetries - 1
                   THEN /\ qpc' = "sleep"
                        /\ qwake' = qnow + TransportWait(qi)
                        /\ UNCHANGED qi
                   ELSE /\ qpc' = "check"
                        /\ qi' = qi + 1
                        /\ UNCHANGED qwake
           [] resp = "500" ->
                /\ qlog' = answered
                /\ qpc' = "check"
                /\ qi' = qi + 1
                /\ UNCHANGED qwake
    /\ UNCHANGED <<qnow, qctx>>

\* time.Sleep returns and the loop goes on (lines 123-127 and 135-136).
QWake ==
    /\ qpc = "sleep"
    /\ qnow >= qwake
    /\ qpc' = "check"
    /\ qi' = qi + 1
    /\ UNCHANGED <<qwake, qnow, qctx, qlog>>

\* The context of the call is cancelled.
QCancel ==
    /\ qpc \notin {"none", "returned"}
    /\ ~qctx
    /\ qctx' = TRUE
    /\ UNCHANGED <<qpc, qi, qwake, qnow, qlog>>

\* A second passes.
QTick ==
    /\ qpc \notin {"none", "returned"}
    /\ qnow < MaxQueryClock
    /\ qnow' = qnow + 1
    /\ UNCHANGED <<qpc, qi, qwake, qctx, qlog>>

\* The call is made, with a context that may be cancelled already.
InitQuery ==
    /\ qpc = "start"
    /\ qi = 0
    /\ qwake = 0
    /\ qnow = 0
    /\ qctx \in BOOLEAN
    /\ qlog = <<>>
    /\ keys = <<>>
    /\ current = 0
    /\ totalUsed = 0
    /\ mu = "free"
    /\ ledger = EmptyStats
    /\ saveSpawned = 0
    /\ saveSnaps = {}
    /\ ret = [key |-> "", err |-> ErrNone, n |-> 0]
    /\ InitRun
    /\ rate = 1
    /\ tokens = 1
    /\ lastRefill = 0
    /\ clock = 0
    /\ lpc = <<>>
    /\ wake = <<>>
    /\ lret = <<>>
    /\ decoded = <<>>
    /\ out = NoCall
    /\ balanceHex = <<>>
    /\ balance = NoBalance
    /\ gui = "idle"
    /\ lastProgress = 0
    /\ pausedTotalProgress = 0
    /\ resultData = <<>>
    /\ runNo = 0
    /\ cancelledAtStart = FALSE
    /\ usedAtStart = 0

NextQuery ==
    \/ QStart /\ UNCHANGED <<poolVars, runVars, limVars, addrVars, formatVars, guiVars, callVars>>
    \/ QCheck /\ UNCHANGED <<poolVars, runVars, limVars, addrVars, formatVars, guiVars, callVars>>
    \/ QDo /\ UNCHANGED <<poolVars, runVars, limVars, addrVars, formatVars, guiVars, callVars>>
    \/ QWake /\ UNCHANGED <<poolVars, runVars, limVars, addrVars, formatVars, guiVars, callVars>>
    \/ QCancel /\ UNCHANGED <<poolVars, runVars, limVars, addrVars, formatVars, guiVars, callVars>>
    \/ QTick /\ UNCHANGED <<poolVars, runVars, limVars, addrVars, formatVars, guiVars, callVars>>

SpecQuery == InitQuery /\ [][NextQuery]_vars

(***************************************************************************)
(* Addresses (tron/address.go).  An address is given by the bytes that     *)
(* base58.Decode returns for it (no bytes for a string that is not         *)
(* Base58).                                                                *)
(***************************************************************************)
\* The byte values of the modelled addresses: 0x00, 0x41 and 0xff.
Bytes == {0, 65, 255}

\* The bytes of a digest that the model keeps.  sha256.Sum256 gives 32;
\* the code reads the first 4 of the second digest.
HashLen == 4

RECURSIVE SumBytes(_)
SumBytes(b) == IF b = <<>> THEN 0 ELSE Head(b) + SumBytes(Tail(b))

RECURSIVE Weighted(_, _)
Weighted(b, i) == IF b = <<>> THEN 0 ELSE i * Head(b) + Weighted(Tail(b), i + 1)

ByteOf(n) == CASE n % 3 = 0 -> 0 [] n % 3 = 1 -> 65 [] OTHER -> 255

\* sha256.Sum256 (lines 44-45 and 68-69), stood in for by a digest that
\* depends on every byte, on its place and on the length.
Sum256(b) ==
    [i \in 1..HashLen |-> ByteOf(SumBytes(b) + i * Weighted(b, 1) + i + Len(b))]

HexDigits == <<"0", "1", "2", "3", "4", "5", "6", "7",
               "8", "9", "a", "b", "c", "d", "e", "f">>

\* hex.EncodeToString (lines 29 and 93): two digits for each byte.
RECURSIVE EncodeToString(_)
EncodeToString(b) ==
    IF b = <<>> THEN <<>>
    ELSE <<HexDigits[(Head(b) \div 16) + 1], HexDigits[(Head(b) % 16) + 1]>>
         \o EncodeToString(Tail(b))

ErrInvalidAddress == "invalid TRON address"
ErrLength         == "wrong address length"
ErrChecksum       == "address checksum mismatch"

Zeros(n) == [i \in 1..n |-> 0]

AddressBodyWithVersion(d) == SubSeq(d, 1, 20)

\* decoded[1:21] (line 21): the 20 bytes after the version byte.
AddressBody(d) == SubSeq(d, 2, 21)

\* Lines 12-30.
AddressToParameter(d) ==
    IF Len(d) < 21 THEN [text |-> <<>>, err |-> ErrInvalidAddress]
    ELSE [text |-> EncodeToString(Zeros(12) \o AddressBody(d)), err |-> ""]

\* Lines 81-94.
AddressToHex(d) ==
    IF Len(d) < 21 THEN [text |-> <<>>, err |-> ErrInvalidAddress]
    ELSE [text |-> EncodeToString(SubSeq(d, 1, 21)), err |-> ""]

RECURSIVE ChecksumLoop(_, _, _)
ChecksumFirstByteOnly(checkSum, hash, i) == checkSum[1] = hash[1]

\* The loop of lines 48-52 and 71-75, from the index i (0-based).
ChecksumLoop(checkSum, hash, i) ==
    IF i >= 4 THEN TRUE
    ELSE IF checkSum[i + 1] # hash[i + 1] THEN FALSE
    ELSE ChecksumLoop(checkSum, hash, i + 1)

\* Lines 33-55.
ValidateAddress(d) ==
    IF Len(d) # 25 THEN FALSE
    ELSE LET addrBytes  == SubSeq(d, 1, 21)
             checkSum   == SubSeq(d, 22, Len(d))
             firstHash  == Sum256(addrBytes)
             secondHash == Sum256(firstHash)
         IN  ChecksumLoop(checkSum, secondHash, 0)

\* Lines 58-78.
ValidateAddressWithError(d) ==
    IF Len(d) # 25 THEN ErrLength
    ELSE LET addrBytes  == SubSeq(d, 1, 21)
             checkSum   == SubSeq(d, 22, Len(d))
             firstHash  == Sum256(addrBytes)
             secondHash == Sum256(firstHash)
         IN  IF ChecksumLoop(checkSum, secondHash, 0) THEN "" ELSE ErrChecksum

\* The version byte and 20 bytes of which one, at most, is not zero.
Payloads ==
    {[i \in 1..21 |-> IF i = 1 THEN 65 ELSE IF i = p THEN 255 ELSE 0] : p \in {2, 21, 22}}

\* The lengths of the decodings, around 21 and 25.
DecodedLens == {0, 20, 21, 24, 25, 26}

\* The decodings: a payload, any four bytes after it and one more byte, cut
\* to each of the lengths.
Decodings ==
    {SubSeq(p \o c \o <<65>>, 1, n) :
        p \in Payloads, c \in [1..4 -> Bytes], n \in DecodedLens}

CallValidateAddress ==
    /\ out' = [NoCall EXCEPT !.fn = "ValidateAddress", !.ok = ValidateAddress(decoded)]
    /\ UNCHANGED decoded

CallValidateAddressWithError ==
    /\ out' = [NoCall EXCEPT !.fn = "ValidateAddressWithError",
                             !.err = ValidateAddressWithError(decoded)]
    /\ UNCHANGED decoded

CallAddressToParameter ==
    /\ out' = [NoCall EXCEPT !.fn = "AddressToParameter",
                             !.err = AddressToParameter(decoded).err,
                             !.text = AddressToParameter(decoded).text]
    /\ UNCHANGED decoded

CallAddressToHex ==
    /\ out' = [NoCall EXCEPT !.fn = "AddressToHex",
                             !.err = AddressToHex(decoded).err,
                             !.text = AddressToHex(decoded).text]
    /\ UNCHANGED decoded

\* Another address is taken: the last one with one of its last four bytes
\* changed.
ChangeChecksumByte ==
    /\ Len(decoded) = 25
    /\ \E i \in 22..25 : \E b \in Bytes \ {decoded[i]} :
         decoded' = [decoded EXCEPT ![i] = b]
    /\ out' = NoCall

InitAddress ==
    /\ decoded \in Decodings
    /\ out = NoCall
    /\ qpc = "none"
    /\ qi = 0
    /\ qwake = 0
    /\ qnow = 0
    /\ qctx = FALSE
    /\ qlog = <<>>
    /\ keys = <<>>
    /\ current = 0
    /\ totalUsed = 0
    /\ mu = "free"
    /\ ledger = EmptyStats
    /\ saveSpawned = 0
    /\ saveSnaps = {}
    /\ ret = [key |-> "", err |-> ErrNone, n |-> 0]
    /\ InitRun
    /\ rate = 1
    /\ tokens = 1
    /\ lastRefill = 0
    /\ clock = 0
    /\ lpc = <<>>
    /\ wake = <<>>
    /\ lret = <<>>
    /\ balanceHex = <<>>
    /\ balance = NoBalance
    /\ gui = "idle"
    /\ lastProgress = 0
    /\ pausedTotalProgress = 0
    /\ resultData = <<>>
    /\ runNo = 0
    /\ cancelledAtStart = FALSE
    /\ usedAtStart = 0

NextAddress ==
    \/ CallValidateAddress /\ UNCHANGED <<poolVars, runVars, limVars, queryVars, formatVars, guiVars, callVars>>
    \/ CallValidateAddressWithError /\ UNCHANGED <<poolVars, runVars, limVars, queryVars, formatVars, guiVars, callVars>>
    \/ CallAddressToParameter /\ UNCHANGED <<poolVars, runVars, limVars, queryVars, formatVars, guiVars, callVars>>
    \/ CallAddressToHex /\ UNCHANGED <<poolVars, runVars, limVars, queryVars, formatVars, guiVars, callVars>>
    \/ ChangeChecksumByte /\ UNCHANGED <<poolVars, runVars, limVars, queryVars, formatVars, guiVars, callVars>>

SpecAddress == InitAddress /\ [][NextAddress]_vars

\* ---------------------------------------------------------------------------
\* The balance of an answer: tron/api.go, lines 203-237.  A string is a
\* sequence of one-character strings; numbers are exact integers.
\* ---------------------------------------------------------------------------

\* The longest generated tail of a hex string.
MaxHexLen == 2

decimals == 6

DecDigits == <<"0", "1", "2", "3", "4", "5", "6", "7", "8", "9">>

\* The value of one base-16 digit as big.Int.SetString reads it, -1 for a
\* character that is no digit.
HexVal(c) ==
    CASE c \in {"0", "1", "2", "3", "4", "5", "6", "7", "8", "9"} ->
             (CHOOSE d \in 1..10 : DecDigits[d] = c) - 1
      [] c \in {"a", "A"} -> 10
      [] c \in {"b", "B"} -> 11
      [] c \in {"c", "C"} -> 12
      [] c \in {"d", "D"} -> 13
      [] c \in {"e", "E"} -> 14
      [] c \in {"f", "F"} -> 15
      [] OTHER -> -1

\* strings.TrimSpace on a sequence of characters: leading and trailing white
\* space removed.
RECURSIVE TrimLeftSpace(_)
TrimLeftSpace(s) ==
    IF s # <<>> /\ Head(s) = " " THEN TrimLeftSpace(Tail(s)) ELSE s

RECURSIVE TrimRightSpace(_)
TrimRightSpace(s) ==
    IF s # <<>> /\ s[Len(s)] = " " THEN TrimRightSpace(SubSeq(s, 1, Len(s) - 1)) ELSE s

TrimSpaceSeq(s) == TrimRightSpace(TrimLeftSpace(s))

\* The digits of a base-16 mantissa, most significant first.
RECURSIVE HexMantissa(_)
HexMantissa(s) ==
    IF s = <<>> THEN 0 ELSE 16 * HexMantissa(SubSeq(s, 1, Len(s) - 1)) + HexVal(s[Len(s)])

\* big.Int.SetString(s, 16): an optional sign, then at least one digit and
\* nothing but digits.
SetString(s) ==
    LET signed == s # <<>> /\ Head(s) \in {"+", "-"}
        m == IF signed THEN Tail(s) ELSE s
    IN  IF m = <<>> \/ \E i \in 1..Len(m) : HexVal(m[i]) < 0
        THEN [ok |-> FALSE, n |-> 0]
        ELSE [ok |-> TRUE,
              n |-> IF signed /\ Head(s) = "-" THEN 0 - HexMantissa(m) ELSE HexMantissa(m)]

\* big.Int.String of a number that is not negative.
RECURSIVE NatString(_)
NatString(n) ==
    IF n < 10 THEN <<DecDigits[n + 1]>> ELSE NatString(n \div 10) \o <<DecDigits[(n % 10) + 1]>>

\* big.Int.String.
String(n) == IF n < 0 THEN <<"-">> \o NatString(0 - n) ELSE NatString(n)

\* fmt.Sprintf("%0*d", width, n) for n >= 0: zeros on the left up to the width.
RECURSIVE PadLeft(_, _)
PadLeft(s, width) == IF Len(s) >= width THEN s ELSE PadLeft(<<"0">> \o s, width)

\* A TrimRight that removes nothing.
TrimRightNothing(s) == s

\* strings.TrimRight(s, "0").
RECURSIVE TrimRight(_)
TrimRight(s) ==
    IF s # <<>> /\ s[Len(s)] = "0" THEN TrimRight(SubSeq(s, 1, Len(s) - 1)) ELSE s

\* 10^k.
RECURSIVE Exp10(_)
Exp10(k) == IF k = 0 THEN 1 ELSE 10 * Exp10(k - 1)

\* formatDecimals(n, decimals).  Div and Mod are Euclidean: with a positive
\* divisor the quotient is rounded down and the remainder is never negative.
formatDecimals(n, d) ==
    IF d = 0 THEN String(n)
    ELSE LET tenPow == Exp10(d)
             intPart == n \div tenPow
             fracPart == n % tenPow
             fracStr == TrimRight(PadLeft(String(fracPart), d))
         IN  IF fracStr = <<>> THEN String(intPart)
             ELSE String(intPart) \o <<".">> \o fracStr

\* Lines 203-210: the first constant_result, trimmed, "0" when empty.
BalanceHex(s) == IF TrimSpaceSeq(s) = <<>> THEN <<"0">> ELSE TrimSpaceSeq(s)

\* "cannot parse the hex balance" (line 215).
ErrParseHex == "cannot parse hex balance"

\* Lines 203-220 of QueryBalanceWithContext.
ParseBalance(s) ==
    LET r == SetString(BalanceHex(s))
    IN  IF ~r.ok THEN [text |-> <<>>, err |-> ErrParseHex]
        ELSE [text |-> formatDecimals(r.n, decimals), err |-> ""]

\* The characters the generated tails are made of.
TailChars == {"0", "1", "f"}

Tails == UNION {[1..k -> TailChars] : k \in 0..MaxHexLen}

\* Beginnings that bring the value near the multiples of 10^5, 10^6 and 10^7.
Heads == {<<>>, <<"f", "4", "2">>, <<"1", "8", "6", "a">>, <<"1", "6", "e", "3", "6">>,
          <<"9", "8", "9", "6">>, <<"1", "2", "d", "6">>, <<"0", "0">>, <<"F">>}

\* The strings a node can put in constant_result[0].
HexAnswers ==
    {h \o t : h \in Heads, t \in Tails}
        \cup {<<" ">>, <<" ", "1", " ">>, <<"g">>, <<"0", "x", "1">>, <<"-", "1">>,
              <<"+", "f">>, <<"1", " ", "1">>, <<"-">>}

\* The answer arrives; nothing has been formatted yet.
InitFormat ==
    /\ keys = <<>>
    /\ current = 0
    /\ totalUsed = 0
    /\ mu = "free"
    /\ ledger = EmptyStats
    /\ saveSpawned = 0
    /\ saveSnaps = {}
    /\ ret = [key |-> "", err |-> ErrNone, n |-> 0]
    /\ InitRun
    /\ rate = 1
    /\ tokens = 1
    /\ lastRefill = 0
    /\ clock = 0
    /\ lpc = <<>>
    /\ wake = <<>>
    /\ lret = <<>>
    /\ qpc = "none"
    /\ qi = 0
    /\ qwake = 0
    /\ qnow = 0
    /\ qctx = FALSE
    /\ qlog = <<>>
    /\ decoded = <<>>
    /\ out = NoCall
    /\ balanceHex \in HexAnswers
    /\ balance = NoBalance
    /\ gui = "idle"
    /\ lastProgress = 0
    /\ pausedTotalProgress = 0
    /\ resultData = <<>>
    /\ runNo = 0
    /\ cancelledAtStart = FALSE
    /\ usedAtStart = 0

\* QueryBalanceWithContext from line 203 to its return.
FormatBalance ==
    /\ balance = NoBalance
    /\ balance' = ParseBalance(balanceHex)
    /\ UNCHANGED balanceHex

NextFormat ==
    \/ FormatBalance /\ UNCHANGED <<poolVars, runVars, limVars, queryVars, addrVars, guiVars, callVars>>

SpecFormat == InitFormat /\ [][NextFormat]_vars


(***************************************************************************)
(* Properties of QueryAddresses (checked under Spec).                      *)
(***************************************************************************)
TerminalStatus == {"success", "error", "cancelled"}

AllTerminal == \A i \in 1..Len(results) : results[i].Status \in TerminalStatus

\* The workers that are querying an address.
Querying == {w \in Workers : wpc[w] \in {"getkey", "attempt", "inflight"}}

\* The [1, 50] clamp of the concurrency setting, 1 when never set.
ExpectedWorkers ==
    IF ~requested.set THEN 1
    ELSE IF requested.max <= 1 THEN 1
    ELSE IF requested.max >= 50 THEN 50
    ELSE requested.max

\* C1, as stated: for every N >= 0, when QueryAddresses returns from a run
\* without Cancel, all N results are terminal, the callback was invoked
\* with current = N exactly once, and GetStats gives total = N and
\* success + failed = N.
C1_CompleteRunAnyLength ==
    (pcMain = "done" /\ ~ctxDone) =>
        /\ Len(results) = N
        /\ AllTerminal
        /\ progressLog[N] = 1
        /\ GetStats.total = N
        /\ GetStats.success + GetStats.failed = N

\* C1, amended: the same for N >= 1; for N = 0 the callback is invoked
\* (once, with 0) only when the pool is empty.
C1_CompleteRun ==
    (pcMain = "done" /\ ~ctxDone) =>
        /\ Len(results) = N
        /\ AllTerminal
        /\ progressLog[N] = (IF N = 0 /\ Len(keys) # 0 THEN 0 ELSE 1)
        /\ GetStats.total = N
        /\ GetStats.success + GetStats.failed = N

C1_Witness ==
    /\ pcMain = "done" /\ ~ctxDone
    /\ N = 2 /\ Len(wpc) = 2
    /\ results[1].Status = "success" /\ results[2].Status = "error"

\* C2: when QueryAddresses returns from a run during which Cancel was
\* called, the results that were terminal at the cancellation are still in
\* the table, every other address is cancelled and none is pending; with 5
\* addresses, one worker and Cancel right after the first address
\* completed, there are one success/error result and four cancelled ones.
C2_CancelLeavesNonePending ==
    (pcMain = "done" /\ cancelSnap.called /\ cancelSnap.pc = "running") =>
        /\ cancelSnap.terminal \subseteq Terminal(results)
        /\ \A i \in 1..N : results[i].Status # "pending"
        /\ (N = 5 /\ Len(wpc) = 1 /\ cancelSnap.terminal = {1} /\ cancelSnap.nextJob = 2) =>
              /\ CountStatus(results, "success") + CountStatus(results, "error") = 1
              /\ CountStatus(results, "cancelled") = 4

\* C3: in a run each result slot goes from pending to a terminal status at
\* most once and never changes afterwards, it is written by the one worker
\* that holds its index, and no index is handed to two workers.
C3_SlotStep ==
    pcMain = "running" =>
        /\ \A i \in 1..N :
             /\ results[i].Status # "pending" => results'[i] = results[i]
             /\ results'[i] # results[i] =>
                  /\ results'[i].Status \in TerminalStatus
                  /\ Cardinality({w \in Workers : widx[w] = i}) = 1
                  /\ \A w \in Workers : widx[w] = i => wpc'[w] = "count"
        /\ \A w \in Workers :
             (widx'[w] # widx[w] /\ widx'[w] # 0) =>
                  /\ results[widx'[w]].Status = "pending"
                  /\ \A w2 \in Workers : widx[w2] # widx'[w]

C3_SlotWrittenOnce ==
    /\ [](\A w1, w2 \in Workers : (w1 # w2 /\ widx[w1] # 0) => widx[w1] # widx[w2])
    /\ [][C3_SlotStep]_vars

C3_Witness ==
    /\ Len(wpc) = 2
    /\ wpc[1] = "count" /\ wpc[2] = "count"
    /\ widx[1] = 2 /\ widx[2] = 1

\* C4: completedCount goes up by one per address that reached a terminal
\* status and never down; no value is passed to the callback twice; a value
\* k is passed when at least k results are terminal, so N only when all
\* are; and at the return every value up to completedCount was passed.
C4_State ==
    /\ \A k \in DOMAIN progressLog :
         /\ progressLog[k] <= 1
         /\ progressLog[k] > 0 => Cardinality(Terminal(results)) >= k
    /\ \A w \in Workers :
         wpc[w] = "notify" =>
             /\ wcur[w] \in 1..Cardinality(Terminal(results))
             /\ progressLog[wcur[w]] = 0
    /\ Len(wpc) > 0 =>
         /\ completedCount + Cardinality({w \in Workers : wpc[w] = "count"})
              = Cardinality(Terminal(results))
         /\ pcMain = "done" =>
              \A k \in 1..N : progressLog[k] = (IF k <= completedCount THEN 1 ELSE 0)

C4_ProgressCount ==
    /\ []C4_State
    /\ [][completedCount' \in {completedCount, completedCount + 1}]_vars

\* The value 2 is delivered while the value 1 is still on its way.
C4_Witness ==
    /\ N = 2 /\ Len(wpc) = 2
    /\ progressLog[2] = 1 /\ progressLog[1] = 0
    /\ \E w \in Workers : wpc[w] = "notify" /\ wcur[w] = 1

C6_WorkersAsConfiguredAlways ==
    /\ maxConcurrent = ExpectedWorkers
    /\ pcMain # "idle" =>
         /\ Len(wpc) = ExpectedWorkers
         /\ Cardinality(Querying) <= ExpectedWorkers

\* C6, amended: the same when the pool holds a key at the start; with an
\* empty pool no worker is started.
C6_WorkersAsConfigured ==
    /\ maxConcurrent = ExpectedWorkers
    /\ pcMain # "idle" =>
         /\ Len(wpc) = (IF Len(keys) = 0 THEN 0 ELSE ExpectedWorkers)
         /\ Cardinality(Querying) <= ExpectedWorkers

C6_Witness ==
    /\ requested = [set |-> TRUE, max |-> 2]
    /\ pcMain = "running"
    /\ Cardinality(Querying) = 2
    /\ wpc[1] = "inflight" /\ wpc[2] = "inflight"

\* C7: for an index whose result is cancelled the worker called GetNextKey
\* not once and sent no request, and the step that marks it cancelled
\* leaves the pool's counters and cursor as they are; so at the return
\* totalUsed counts the queried addresses only.
C7_State ==
    /\ \A w \in Workers :
         (widx[w] # 0 /\ results[widx[w]].Status = "cancelled") =>
             wcalls[w] = 0 /\ wsent[w] = 0 /\ wkey[w] = ""
    /\ (pcMain = "done" /\ Len(wpc) > 0) =>
         totalUsed = Cardinality({i \in 1..N :
                        \/ results[i].Status = "success"
                        \/ results[i].Status = "error" /\ results[i].Error = MsgQuery})

C7_Step ==
    pcMain = "running" =>
        \A i \in 1..N :
            (results'[i].Status = "cancelled" /\ results[i].Status # "cancelled") =>
                UNCHANGED <<keys, current, totalUsed, saveSpawned, ret>>

C7_CancelledUsesNoKey == []C7_State /\ [][C7_Step]_vars

C7_Witness ==
    /\ pcMain = "done" /\ N = 2 /\ totalUsed = 1
    /\ results[1].Status = "success" /\ results[2].Status = "cancelled"

C8_Step ==
    /\ ctxDone' # ctxDone =>
         UNCHANGED <<addresses, results, maxConcurrent, pcMain, nextJob, jobsClosed,
                     completedCount, workerVars, requested, progressLog, aborted,
                     poolVars>>
    /\ \A w \in Workers :
         (w \in DOMAIN wsent' /\ wsent'[w] > wsent[w]) => ~ctxDone
    /\ (aborted' /\ ~aborted) =>
         /\ ctxDone
         /\ \E w \in Workers :
              /\ wpc[w] = "inflight"
              /\ wpc'[w] = (IF wtry[w] < maxRetries - 1 THEN "attempt" ELSE "count")

IsSelection == totalUsed' = totalUsed + 1

\* The step is a call of GetNextKey.
IsGetNextKey ==
    \/ IsSelection
    \/ ret' # ret /\ ret'.err \in {ErrEmpty, ErrOneUsedUp, ErrAllUsedUp}

\* C9: after any sequence of pool operations, a key returned by GetNextKey
\* was enabled and under its limit right before the call, and is not over
\* its limit after the increment.
C9_Step ==
    IsSelection =>
        /\ ret'.err = ErrNone
        /\ Len(keys') = Len(keys)
        /\ \E i \in 1..Len(keys) :
             /\ keys[i].Key = ret'.key
             /\ keys[i].Enabled
             /\ keys[i].Used < keys[i].MaxLimit
             /\ keys'[i].Key = ret'.key
             /\ keys'[i].Used <= keys'[i].MaxLimit

C9_ReturnedKeyUnderLimit == [][C9_Step]_vars

\* A key whose count was restored from the ledger is selected up to its limit.
C9_Witness ==
    /\ ret.err = ErrNone /\ ret.key = "k2"
    /\ totalUsed = 1
    /\ Len(keys) = 2 /\ keys[2].Key = "k2" /\ keys[2].Used = keys[2].MaxLimit
    /\ keys[1].Used = keys[1].MaxLimit

\* n consecutive calls of GetNextKey from the pool (ks, cur).
RECURSIVE Calls(_, _, _)
Calls(ks, cur, n) ==
    IF n = 0 THEN <<>>
    ELSE LET r == NextKey(ks, cur) IN <<r>> \o Calls(r.keys, r.current, n - 1)

\* C10: a pool of one enabled key with Used = u <= MaxLimit answers exactly
\* MaxLimit - u consecutive calls with the key, each raising Used by one,
\* and the later calls with the used-up error, Used staying at MaxLimit.
C10_State ==
    (Len(keys) = 1 /\ keys[1].Enabled /\ keys[1].Used <= keys[1].MaxLimit) =>
        LET u  == keys[1].Used
            L  == keys[1].MaxLimit
            rs == Calls(keys, current, L - u + 2)
        IN \A j \in 1..(L - u + 2) :
             IF j <= L - u
             THEN /\ rs[j].ok /\ rs[j].key = keys[1].Key /\ rs[j].err = ErrNone
                  /\ rs[j].keys[1].Used = u + j
             ELSE /\ ~rs[j].ok /\ rs[j].err = ErrOneUsedUp
                  /\ rs[j].keys[1].Used = L

C10_Step ==
    (Len(keys) = 1 /\ keys[1].Enabled /\ keys[1].Used <= keys[1].MaxLimit /\ IsGetNextKey) =>
        IF keys[1].Used < keys[1].MaxLimit
        THEN /\ ret' = [key |-> keys[1].Key, err |-> ErrNone, n |-> 0]
             /\ keys' = [keys EXCEPT ![1].Used = @ + 1]
        ELSE /\ ret' = [key |-> "", err |-> ErrOneUsedUp, n |-> 0]
             /\ keys' = keys

C10_SingleKeyQuota == []C10_State /\ [][C10_Step]_vars

\* From Used = MaxLimit - 1 one selection succeeded and the next failed.
C10_Witness ==
    /\ Len(keys) = 1 /\ keys[1].Used = keys[1].MaxLimit
    /\ totalUsed = 1
    /\ ret = [key |-> "", err |-> ErrOneUsedUp, n |-> 0]

(***************************************************************************)
(* Properties of the rotation (checked under SpecRotate).                  *)
(***************************************************************************)
\* The offsets from the cursor at which an eligible key stands.
EligibleOffsets ==
    {d \in 0..(Len(keys) - 1) : Eligible(keys[((current + d) % Len(keys)) + 1])}

\* C11: in a pool of n >= 2 keys with cursor c, a successful GetNextKey
\* returns the first key in the order c, c+1, ..., c+n-1 (mod n) that is
\* enabled and under its limit, raises the count of that key only, by one,
\* and leaves the cursor at (selected index + 1) mod n; when all n keys are
\* eligible, n selections in a row return every key once.
C11_Step ==
    (Len(keys) >= 2 /\ IsSelection) =>
        /\ EligibleOffsets # {}
        /\ LET n   == Len(keys)
               d0  == CHOOSE d \in EligibleOffsets : \A e \in EligibleOffsets : d <= e
               idx == (current + d0) % n
           IN /\ ret' = [key |-> keys[idx + 1].Key, err |-> ErrNone, n |-> 0]
              /\ keys' = [keys EXCEPT ![idx + 1].Used = @ + 1]
              /\ current' = (idx + 1) % n

C11_State ==
    (Len(keys) >= 2 /\ \A i \in 1..Len(keys) : Eligible(keys[i])) =>
        LET rs == Calls(keys, current, Len(keys)) IN
        /\ \A j \in 1..Len(keys) : rs[j].ok
        /\ \A k \in KeyNames(keys) :
             Cardinality({j \in 1..Len(keys) : rs[j].key = k}) = 1

C11_RoundRobin == []C11_State /\ [][C11_Step]_vars

\* The scan went past two used-up keys and around the end of the pool.
C11_Witness ==
    /\ Len(keys) = 3 /\ totalUsed = 1
    /\ ret.key = "k1" /\ current = 1
    /\ keys[1].Used = 1
    /\ keys[2].Used = keys[2].MaxLimit /\ keys[3].Used = keys[3].MaxLimit

\* The keys of the pool that are enabled and under their limit.
UnderLimit == {i \in 1..Len(keys) : keys[i].Enabled /\ keys[i].Used < keys[i].MaxLimit}

UsedUpErrors == {ErrOneUsedUp, ErrAllUsedUp}

\* C32: on a pool that is not empty GetNextKey fails with the used-up error
\* exactly when no key is enabled and under its limit; when some key is,
\* the call succeeds wherever the cursor is.
C32_State ==
    Len(keys) >= 1 =>
        LET r == NextKey(keys, current) IN
        /\ (~r.ok /\ r.err \in UsedUpErrors) <=> (UnderLimit = {})
        /\ UnderLimit # {} => (r.ok /\ r.err = ErrNone /\ r.key \in KeyNames(keys))

C32_Step ==
    (Len(keys) >= 1 /\ IsGetNextKey) =>
        /\ (ret'.err \in UsedUpErrors) <=> (UnderLimit = {})
        /\ UnderLimit # {} => (ret'.err = ErrNone /\ ret'.key \in KeyNames(keys))

C32_FailsOnlyWhenAllUsedUp == []C32_State /\ [][C32_Step]_vars

\* The only key under its limit stood right before the cursor and was found.
C32_Witness ==
    /\ Len(keys) = 3 /\ totalUsed = 1
    /\ ret.key = "k2" /\ current = 2
    /\ keys[2].Used = 1
    /\ keys[1].Used = keys[1].MaxLimit /\ keys[3].Used = keys[3].MaxLimit

\* The step is a call of GetNextKey that returned an error.
IsRefusal == ret' # ret /\ ret'.err \in {ErrEmpty, ErrOneUsedUp, ErrAllUsedUp}

\* C37: a GetNextKey that fails, on an empty pool or with every key used
\* up, leaves every count, the total, the keys and the cursor as they were
\* and starts no write of the ledger.
C37_State ==
    LET r == NextKey(keys, current) IN
    ~r.ok => (r.keys = keys /\ r.current = current)

C37_Step ==
    IsRefusal =>
        UNCHANGED <<keys, current, totalUsed, ledger, saveSpawned, saveSnaps, mu>>

C37_RefusalChangesNothing == []C37_State /\ [][C37_Step]_vars

\* Three used-up keys were scanned from the third one and none was taken.
C37_Witness ==
    /\ ret.err = ErrAllUsedUp
    /\ Len(keys) = 3 /\ current = 2 /\ totalUsed = 0
    /\ \A i \in 1..3 : keys[i].Used = keys[i].MaxLimit

(***************************************************************************)
(* Properties of the ledger (checked under SpecPool).                      *)
(***************************************************************************)
\* C12: the count of a key, in the pool and in the ledger, never goes down,
\* over any sequence of selections, loads, LoadStatsIfExists calls and
\* removals.
C12_Step ==
    /\ \A i \in 1..Len(keys), j \in 1..Len(keys') :
         keys[i].Key = keys'[j].Key => keys'[j].Used >= keys[i].Used
    /\ \A k \in DOMAIN ledger \cap DOMAIN ledger' : ledger'[k] >= ledger[k]

C12_UsedNeverDecreases == [][C12_Step]_vars

\* C13: when the last operation on the pool was a successful selection and
\* every saveStats goroutine that was started has finished, the ledger maps
\* each key of the pool to its count in memory.
C13_LedgerUpToDate ==
    (mu = "free" /\ ret.key # "" /\ saveSpawned = 0 /\ saveSnaps = {}) =>
        \A i \in 1..Len(keys) :
            /\ keys[i].Key \in DOMAIN ledger
            /\ ledger[keys[i].Key] = keys[i].Used

(***************************************************************************)
(* Properties of the ledger round trip (checked under SpecLedger).         *)
(***************************************************************************)
\* The ledger is what saveStats writes for the pool as it is.
JustSaved == ledger = Json(StatsOf(keys))

\* C14, as stated: after saveStats has written the ledger, a load of the
\* same keys (LoadKeysFromFile or LoadStatsIfExists) with nothing in
\* between gives every key of the pool the count it had before the save.
C14_StepAnyKey ==
    (JustSaved /\ ~IsSelection /\ KeyNames(keys') = KeyNames(keys)) =>
        \A i \in 1..Len(keys), j \in 1..Len(keys') :
            keys[i].Key = keys'[j].Key => keys'[j].Used = keys[i].Used

C14_Step ==
    (JustSaved /\ ~IsSelection /\ KeyNames(keys') = KeyNames(keys)) =>
        \A i \in 1..Len(keys), j \in 1..Len(keys') :
            (keys[i].Key = keys'[j].Key /\ EncodeKey(keys[i].Key) = keys[i].Key) =>
                keys'[j].Used = keys[i].Used

AllFiles == UNION {[1..n -> RawLines] : n \in 0..3}

\* The distinct non-empty members of a sequence, in order of first
\* occurrence.
FirstOccurrences(seq) ==
    LET firsts == {i \in 1..Len(seq) : seq[i] # "" /\ \A j \in 1..(i - 1) : seq[j] # seq[i]}
        Rank(i) == Cardinality({j \in firsts : j <= i})
    IN [r \in 1..Cardinality(firsts) |-> seq[CHOOSE i \in firsts : Rank(i) = r]]

Trimmed(lines) == [i \in 1..Len(lines) |-> TrimSpace(lines[i])]

\* What the claim says of the keys loaded from lines, names being the keys
\* it expects: each once and in order, the count from the ledger or 0.
LoadedAs(lines, names) ==
    LET ks == LoadedKeys(lines, ledger) IN
    /\ Len(ks) = Len(names)
    /\ \A i \in 1..Len(ks) :
         /\ ks[i].Key = names[i]
         /\ ks[i].Used = (IF names[i] \in DOMAIN ledger THEN ledger[names[i]] ELSE 0)
         /\ ks[i].MaxLimit = MaxQueriesPerKey /\ ks[i].Enabled

\* C15, as stated: a successful LoadKeysFromFile leaves in the pool each
\* distinct non-empty line of the file once, in order of first occurrence,
\* with the count of the ledger for it or 0, and the cursor at 0; a file
\* without a non-empty line fails with the no-valid-key error.
C15_LoadsDistinctLines ==
    \A lines \in AllFiles : LoadedAs(lines, FirstOccurrences(lines))

\* C15, amended: the same for the lines with their surrounding white space
\* trimmed.
C15_State ==
    \A lines \in AllFiles : LoadedAs(lines, FirstOccurrences(Trimmed(lines)))

C15_Step ==
    /\ (ret'.err = ErrNoKeys /\ ret' # ret) => UNCHANGED <<keys, current, ledger>>
    /\ (Len(keys') # Len(keys) \/ \E i \in 1..Len(keys) : keys'[i].Key # keys[i].Key) =>
         /\ \E lines \in KeyFiles \cup {FileOf(keys)} :
              /\ FirstOccurrences(Trimmed(lines)) # <<>>
              /\ keys' = LoadedKeys(lines, ledger)
         /\ current' = 0
         /\ ret' = [key |-> "", err |-> ErrNone, n |-> 0]

C15_LoadsDistinctTrimmedLines == []C15_State /\ [][C15_Step]_vars

\* After a selection of k1 and a save, the file with k1 twice, once between
\* blanks, was loaded over a pool of two keys.
C15_Witness ==
    /\ Len(keys) = 1 /\ keys[1].Key = "k1" /\ keys[1].Used = 1
    /\ totalUsed = 1 /\ current = 0
    /\ ret = [key |-> "", err |-> ErrNone, n |-> 0]
    /\ "k2" \in DOMAIN ledger

\* The step is a call of LoadKeysFromFile that returned an error.
IsFailedLoad == ret' # ret /\ ret'.err \in {ErrOpen, ErrRead, ErrNoKeys}

\* C38: a LoadKeysFromFile that fails (the file cannot be read or has no
\* line that is not blank) leaves the keys, the counts, the cursor and the
\* ledger as they were.
C38_Step ==
    IsFailedLoad =>
        UNCHANGED <<keys, current, totalUsed, ledger, saveSpawned, saveSnaps, mu>>

C38_FailedLoadChangesNothing == [][C38_Step]_vars

\* A file of blank lines was given to a pool whose key had been selected.
C38_Witness ==
    /\ ret.err = ErrNoKeys
    /\ totalUsed = 1
    /\ Len(keys) = 1 /\ keys[1].Used >= 1

(***************************************************************************)
(* Properties of the removals (checked under SpecPool).                    *)
(***************************************************************************)
\* C16: RemoveKey(k) on a pool without k returns the not-found error and
\* leaves keys, counts and cursor as they are; on a pool with k it returns
\* success (no call is left waiting), k is gone, the other keys are kept
\* in order with their counts, and the cursor is 0 if it would be past the
\* end.
C16_Step ==
    /\ (ret' # ret /\ ret'.err = ErrNotFound) =>
         UNCHANGED <<keys, current, totalUsed, mu>>
    /\ (mu = "free" /\ mu' = "RemoveKey") =>
         \E k \in KeyNames(keys) :
            /\ keys' = WithoutKey(keys, k)
            /\ k \notin KeyNames(keys')
            /\ current' = (IF current >= Len(keys') THEN 0 ELSE current)

C16_RemoveKeyReturns == [](mu # "RemoveKey") /\ [][C16_Step]_vars

\* C17: RemoveKeysByUsageThreshold returns, for every pool and threshold
\* (no call is left waiting), the number of keys with Used >= threshold,
\* after which no such key is in the pool and the others are kept in
\* order; when no key matches it returns 0 and changes nothing.
C17_Step ==
    (mu = "free" /\ mu' = "RemoveKeysByUsageThreshold") =>
        \E threshold \in 0..(MaxQueriesPerKey + 1) :
            /\ keys' = BelowThreshold(keys, threshold)
            /\ \A i \in 1..Len(keys') : keys'[i].Used < threshold

C17_ThresholdRemovalReturns ==
    [](mu # "RemoveKeysByUsageThreshold") /\ [][C17_Step]_vars

\* C35: every pool operation returns with the pool lock released: none
\* waits for the lock while it holds it, also when it saves the ledger.
C35_LockReleased == mu = "free"

\* C36: after any sequence of loads, selections and removals the cursor is
\* at least 0 and less than the number of keys when the pool is not empty,
\* and 0 when it is empty.
C36_CursorInRange ==
    IF Len(keys) = 0 THEN current = 0 ELSE current \in 0..(Len(keys) - 1)

\* The cursor stood on the second key when a removal left one key.
C36_Witness ==
    /\ totalUsed = 1
    /\ mu = "RemoveKey"
    /\ Len(keys) = 1 /\ keys[1].Key = "k2" /\ keys[1].Used = 0
    /\ current = 0

(***************************************************************************)
(* Properties of selection and its saves (checked under SpecPool).         *)
(***************************************************************************)
\* The step is one of a saveStats goroutine.
IsSaverStep == saveSpawned' < saveSpawned \/ saveSnaps' # saveSnaps

\* C18: GetNextKey returns without waiting for the ledger write it starts:
\* it can be called whatever writes are pending, its step writes nothing
\* to the ledger, and the key it returns, the counts and the cursor depend
\* on the pool alone; a write, done or failed, changes none of them.
C18_State == mu = "free" => ENABLED SelectKey

C18_Step ==
    /\ IsGetNextKey =>
         LET r == NextKey(keys, current) IN
         /\ ret' = [key |-> r.key, err |-> r.err, n |-> 0]
         /\ keys' = r.keys /\ current' = r.current
         /\ totalUsed' = totalUsed + (IF r.ok THEN 1 ELSE 0)
         /\ saveSpawned' = saveSpawned + (IF r.ok THEN 1 ELSE 0)
         /\ UNCHANGED <<ledger, saveSnaps, mu>>
    /\ IsSaverStep => UNCHANGED <<keys, current, totalUsed, ret, mu>>

C18_SelectionDoesNotWait == []C18_State /\ [][C18_Step]_vars

\* The second selection returned while the write of the first was pending.
C18_Witness ==
    /\ totalUsed = 2 /\ ret.key # ""
    /\ saveSpawned = 1 /\ saveSnaps # {}
    /\ \E s \in saveSnaps : \E k \in DOMAIN s : s[k] = 1

(***************************************************************************)
(* Properties of concurrent selection (checked under Spec).                *)
(***************************************************************************)
RECURSIVE SumUsed(_)
SumUsed(ks) == IF ks = <<>> THEN 0 ELSE Head(ks).Used + SumUsed(Tail(ks))

\* The selections that succeeded in the run: the keys in the hands of the
\* workers and those of the queries that ended.
SelectionsMade ==
    Cardinality({w \in Workers : wkey[w] # "" /\ wpc[w] \in {"attempt", "inflight"}})
    + Cardinality({i \in 1..Len(results) :
                      \/ results[i].Status = "success"
                      \/ results[i].Status = "error" /\ results[i].Error = MsgQuery})

\* C19: with any number of workers calling GetNextKey, no increment is
\* lost: after k successful selections the counts of the keys have gone up
\* by k in all and totalUsed by k, each selection raising one count by one,
\* and the cursor is what the latest selection left.
C19_State ==
    /\ totalUsed = SelectionsMade
    /\ \E p \in StartPools :
         /\ Len(p) = Len(keys)
         /\ SumUsed(keys) = SumUsed(p) + SelectionsMade

C19_Step ==
    IF IsSelection
    THEN /\ SumUsed(keys') = SumUsed(keys) + 1
         /\ \E i \in 1..Len(keys) : keys' = [keys EXCEPT ![i].Used = @ + 1]
         /\ current' = NextKey(keys, current).current
    ELSE UNCHANGED <<keys, current, totalUsed>>

C19_NoLostIncrement == []C19_State /\ [][C19_Step]_vars

\* Two workers hold a key each at the same time.
C19_Witness ==
    /\ Len(wpc) = 2 /\ totalUsed = 2
    /\ wpc[1] = "inflight" /\ wpc[2] = "inflight"
    /\ wkey[1] = "k2" /\ wkey[2] = "k1"

(***************************************************************************)
(* Properties of the rate limiter (checked under SpecLimiter).             *)
(***************************************************************************)
\* C20: in every reachable state of a RateLimiter, with any number of
\* concurrent callers of Wait and any passage of time,
\* 0 <= tokens <= maxTokens; Wait takes a token only when one is there,
\* blocking until then (a token taken from none leaves tokens below zero).
C20_TokensInRange == 0 <= tokens /\ tokens <= maxTokens

\* The calls of Wait that returned at the ticks from through from + n - 1.
RECURSIVE Returned(_, _)
Returned(from, n) ==
    IF n = 0 \/ from > MaxClock THEN 0
    ELSE lret[from] + Returned(from + 1, n - 1)

\* C21: for one RateLimiter with capacity r and interval T shared by any
\* number of concurrent callers, at most r calls of Wait return within any
\* window of length T (here: at any Interval successive ticks, which lie
\* less than T apart).
C21_AtMostRatePerWindow ==
    \A t \in 0..MaxClock : Returned(t, Interval) <= rate

(***************************************************************************)
(* Properties of the pacing of requests (checked under Spec).              *)
(***************************************************************************)
\* The workers that hold a client.
WithClient == {w \in Workers : wlim[w] # NoClient}

\* The requests sent with the key k at this instant by the workers 1..n.
RECURSIVE SentWith(_, _)
SentWith(k, n) ==
    IF n = 0 THEN 0
    ELSE (IF wkey[n] = k THEN wburst[n] ELSE 0) + SentWith(k, n - 1)

\* C22: during a batch all queries issued with one credential are paced by
\* one limiter, so the requests sent with a credential in any one-second
\* window are at most the limiter's capacity, for every concurrency
\* setting.
C22_PacedPerCredential ==
    \A k \in KeySet : SentWith(k, Len(wpc)) <= DefaultRate

\* C23: after SetRateLimit(r) the clients used by the batch allow at most
\* r requests per second instead of the default.
C23_RateIsAdjustable ==
    rateAsked # 0 => \A w \in WithClient : wlim[w].rate = rateAsked

(***************************************************************************)
(* Properties of one query's attempts (checked under SpecQuery).           *)
(***************************************************************************)
\* The places of the log where a request was sent.
Sends == {j \in 1..Len(qlog) : qlog[j].ev = "send"}

\* The attempts made before the place j of the log.
AttemptsBefore(j) == Cardinality({h \in Sends : h < j})

ErrorReturns == {"error: address", "error: request failed", "error: cancelled",
                 "error: answer"}

Returns == ErrorReturns \cup {"balance"}

\* C24: one call sends at most 3 HTTP attempts whatever the answers; if
\* no attempt is answered with HTTP 200 the call returns an error and never
\* a balance.
C24_AtMostThreeAttempts ==
    /\ Cardinality(Sends) <= 3
    /\ \A j \in 1..Len(qlog) : qlog[j].ev \in Returns => j = Len(qlog) /\ qpc = "returned"
    /\ (qpc = "returned" /\ \A j \in 1..Len(qlog) : qlog[j].ev \notin {"200 ok", "200 bad"})
          => qlog[Len(qlog)].ev \in ErrorReturns

\* Three attempts, none answered with 200, and the call has returned.
C24_Witness ==
    /\ qpc = "returned"
    /\ Cardinality(Sends) = 3
    /\ qlog[2].ev = "500" /\ qlog[4].ev = "transport" /\ qlog[6].ev = "500"
    /\ qlog[Len(qlog)].ev = "error: request failed"

\* C25: a further attempt is made only after an attempt that was answered
\* with HTTP 429 or failed at the transport level; an attempt answered with
\* another status than 200 ends the query at once with an error, and no
\* further request is sent.
C25_RetryOnlyAfter429OrTransport ==
    /\ \A j \in Sends :
         j > 1 => qlog[j - 1].ev \in {"429", "transport", "context"}
    /\ \A j \in 1..Len(qlog) :
         (qlog[j].ev = "500" /\ j < Len(qlog)) =>
             qlog[j + 1].ev \in ErrorReturns /\ qlog[j + 1].at = qlog[j].at

\* C26: between attempt k (k = 1, 2) and attempt k + 1 the client waits 2k
\* seconds when attempt k was answered with HTTP 429 and k seconds when it
\* failed at the transport level, and the next request is never sent
\* before that wait has elapsed.
C26_WaitsBetweenAttempts ==
    /\ qpc = "sleep" =>
         LET a == qlog[Len(qlog)]
             k == Cardinality(Sends) IN
         /\ a.ev = "429" => qwake = a.at + 2 * k
         /\ a.ev \in {"transport", "context"} => qwake = a.at + k
    /\ \A j \in Sends :
         j > 1 =>
            LET a == qlog[j - 1]
                k == AttemptsBefore(j) IN
            /\ a.ev = "429" => qlog[j].at >= a.at + 2 * k
            /\ a.ev \in {"transport", "context"} => qlog[j].at >= a.at + k

\* The third attempt, after a 429 and a transport failure: 2 and 2 seconds.
C26_Witness ==
    /\ Cardinality(Sends) = 3
    /\ qlog[2].ev = "429" /\ qlog[4].ev = "transport"
    /\ qlog[3].at = qlog[2].at + 2
    /\ qlog[5].at = qlog[4].at + 2

\* C27: if the cancellation signal is set when an attempt is about to
\* start, the first included, no request is sent for it or for a later
\* one, and the call returns an error at once, without a further wait.
C27_Step ==
    (qpc = "check" /\ qctx /\ qi < 3) =>
        \/ UNCHANGED <<qpc, qi, qlog>>
        \/ /\ qpc' = "returned"
           /\ qlog' = Append(qlog, Event("error: cancelled", qnow))

C27_NoAttemptOnceCancelled ==
    /\ [](qpc = "returned" => ~ENABLED (QCheck \/ QDo \/ QWake))
    /\ [][C27_Step]_vars

\* Cancelled during the sleep after a 429: the second attempt is not made.
C27_Witness ==
    /\ qpc = "returned" /\ Len(qlog) = 3
    /\ qlog[1].ev = "send" /\ qlog[2].ev = "429"
    /\ qlog[3].ev = "error: cancelled"

(***************************************************************************)
(* Properties of the results (checked under Spec).                         *)
(***************************************************************************)
\* C28: every terminal result explains itself: success has a Balance and
\* no Error; error has an Error (for a pool failure, one that carries the
\* pool's reason) and no Balance; cancelled has an Error marker; and
\* Address is the address submitted at that index.
C28_State ==
    \A i \in 1..Len(results) :
        LET r == results[i] IN
        /\ r.Address = addresses[i]
        /\ r.Status = "success" => r.Balance # "" /\ r.Error = ""
        /\ r.Status = "error" => r.Error # "" /\ r.Balance = ""
        /\ r.Status = "cancelled" => r.Error # ""

C28_Step ==
    \A w \in Workers :
        (wpc[w] = "getkey" /\ wpc'[w] = "count" /\ ret'.err # ErrNone) =>
            /\ results'[widx[w]].Status = "error"
            /\ results'[widx[w]].Error = KeyFailedMsg(ret'.err)

C28_ResultsExplainThemselves == []C28_State /\ [][C28_Step]_vars

\* A success, a failed credential acquisition and a cancelled address.
C28_Witness ==
    /\ pcMain = "done" /\ N = 3
    /\ results[1].Status = "success"
    /\ results[2].Error = KeyFailedMsg(ErrOneUsedUp)
    /\ results[3].Status = "cancelled"

(***************************************************************************)
(* Properties of the address functions (checked under SpecAddress).        *)
(***************************************************************************)
\* The decoding d has 25 bytes, the last 4 of them the first 4 bytes of
\* hash(hash(first 21 bytes)).
WellFormed(d) ==
    /\ Len(d) = 25
    /\ \A i \in 1..4 : d[21 + i] = Sum256(Sum256(SubSeq(d, 1, 21)))[i]

\* C29: ValidateAddress(a) is true exactly when the decoding of a has
\* length 25 and its last 4 bytes are the first 4 bytes of
\* hash(hash(first 21 bytes)); changing one checksum byte of a valid
\* address makes it false; ValidateAddressWithError(a) returns no error
\* exactly when ValidateAddress(a) is true, and reports the wrong length
\* when the length is not 25 and the checksum mismatch otherwise.
C29_State ==
    /\ out.fn = "ValidateAddress" => (out.ok <=> WellFormed(decoded))
    /\ out.fn = "ValidateAddressWithError" =>
         /\ out.err = "" <=> ValidateAddress(decoded)
         /\ Len(decoded) # 25 => out.err = ErrLength
         /\ (Len(decoded) = 25 /\ ~ValidateAddress(decoded)) => out.err = ErrChecksum

C29_Step ==
    (ValidateAddress(decoded) /\ decoded' # decoded) => ~ValidateAddress(decoded')

C29_ValidateAddress == []C29_State /\ [][C29_Step]_vars

\* A valid address was validated without an error.
C29_Witness ==
    /\ out.fn = "ValidateAddressWithError" /\ out.err = ""
    /\ Len(decoded) = 25 /\ decoded[21] = 255

\* The two hex digits of the byte b.
HexOf(b) == <<HexDigits[(b \div 16) + 1], HexDigits[(b % 16) + 1]>>

\* C30: for a decoding of at least 21 bytes AddressToParameter returns 64
\* hex characters, the first 24 of them '0' and the last 40 the bytes 1 to
\* 20 of the decoding, and AddressToHex returns 42 hex characters, the
\* bytes 0 to 20; for a decoding of fewer than 21 bytes both return the
\* invalid-address error.
C30_HexForms ==
    /\ out.fn = "AddressToParameter" =>
         IF Len(decoded) >= 21
         THEN /\ out.err = ""
              /\ Len(out.text) = 64
              /\ \A j \in 1..24 : out.text[j] = "0"
              /\ \A j \in 1..20 :
                   <<out.text[23 + 2 * j], out.text[24 + 2 * j]>> = HexOf(decoded[j + 1])
         ELSE out.err = ErrInvalidAddress /\ out.text = <<>>
    /\ out.fn = "AddressToHex" =>
         IF Len(decoded) >= 21
         THEN /\ out.err = ""
              /\ Len(out.text) = 42
              /\ \A j \in 1..21 :
                   <<out.text[2 * j - 1], out.text[2 * j]>> = HexOf(decoded[j])
         ELSE out.err = ErrInvalidAddress /\ out.text = <<>>

\* The parameter of an address whose body ends with 0xff.
C30_Witness ==
    /\ out.fn = "AddressToParameter" /\ Len(decoded) = 26
    /\ decoded[21] = 255
    /\ out.text[25] = "0" /\ out.text[63] = "f" /\ out.text[64] = "f"

(***************************************************************************)
(* Properties of the balance formatting (checked under SpecFormat).        *)
(***************************************************************************)
\* The number the trimmed hex string denotes.
AmountOf(s) == SetString(BalanceHex(s)).n

\* The position of the first decimal point of a text, 0 when it has none.
PointAt(t) ==
    IF \E i \in 1..Len(t) : t[i] = "." THEN CHOOSE i \in 1..Len(t) :
           t[i] = "." /\ \A j \in 1..(i - 1) : t[j] # "."
    ELSE 0

\* A text is a canonical natural number: digits only, no leading zero.
IsNatText(t) ==
    /\ t # <<>>
    /\ \A i \in 1..Len(t) : \E d \in 1..10 : DecDigits[d] = t[i]
    /\ Len(t) > 1 => t[1] # "0"

\* The value of a text of decimal digits.
RECURSIVE DecValue(_)
DecValue(t) ==
    IF t = <<>> THEN 0
    ELSE 10 * DecValue(SubSeq(t, 1, Len(t) - 1))
             + ((CHOOSE d \in 1..10 : DecDigits[d] = t[Len(t)]) - 1)

Formatted == balance # NoBalance /\ balance.err = "" /\ AmountOf(balanceHex) >= 0

Answered(r) == r.Status \in {"success", "error"}

\* C33: when a running query is paused and continued from the saved index,
\* the saved index is the position of the first address without a success
\* or error result and every address before it has one, so that when the
\* continued query has ended every address of the list has a success or
\* error result, whatever the number of workers.
C33_ResumeCoversAll ==
    /\ gui \in {"paused", "resumed"} =>
          /\ \A i \in 1..pausedTotalProgress : Answered(resultData[i])
          /\ ~Answered(resultData[pausedTotalProgress + 1])
    /\ (gui = "resumed" /\ pcMain = "done") =>
          \A i \in 1..Len(resultData) : Answered(MergedResults[i])

(***************************************************************************)
(* Properties of a run under fair scheduling (checked under SpecFair).     *)
(***************************************************************************)
\* C34: with fair scheduling and every attempt returning, QueryAddresses
\* returns for every input, cancelled or not; once it has returned no
\* worker runs, and no result and no progress count changes.
C34_Returns == (pcMain = "running") ~> (pcMain = "done")

\* The same while no removal holds the lock of the pool.
C34_ReturnsWithPoolFree == (pcMain = "running") ~> (pcMain = "done" \/ mu # "free")

\* After the return nothing of the run changes.
C34_QuietAfterReturn ==
    [][pcMain = "done" =>
          /\ UNCHANGED <<results, completedCount, progressLog, workerVars>>
          /\ \A w \in Workers : wpc[w] = "exit"]_vars

(***************************************************************************)
(* Properties of the keys used by a run (checked under Spec).              *)
(***************************************************************************)
\* The addresses whose query was started: those in the hands of a worker
\* that holds a key, and those with a balance or a query error.
QueriesStarted ==
    Cardinality({w \in Workers : wkey[w] # "" /\ wpc[w] \in {"attempt", "inflight"}})
    + Cardinality({i \in 1..Len(results) :
                      \/ results[i].Status = "success"
                      \/ results[i].Status = "error" /\ results[i].Error = MsgQuery})

\* The step sends a request for the address of worker w.
SendsFor(w) == w \in DOMAIN wsent' /\ wsent'[w] = wsent[w] + 1

\* C39: in a run each address with a balance or a query error took exactly
\* one successful selection, every request for it is sent with the key of
\* that selection, and an address that got no key sent no request; so
\* totalUsed goes up by the number of addresses whose query was started,
\* not by the number of requests.
C39_State ==
    /\ \A w \in Workers :
         /\ wcalls[w] <= 1
         /\ wkey[w] # "" => wcalls[w] = 1
         /\ wsent[w] > 0 => wkey[w] # ""
         /\ wlast[w] = "no key" => (wsent[w] = 0 /\ wkey[w] = "")
         /\ wlast[w] \in {"balance", "query failed", "HTTP status", "request failed"} =>
               (wcalls[w] = 1 /\ wsent[w] >= 1)
    /\ totalUsed = QueriesStarted

C39_Step ==
    \A w \in Workers :
        /\ SendsFor(w) => (wkey[w] # "" /\ UNCHANGED <<wkey, wcalls, keys, current, totalUsed>>)
        /\ (wkey[w] # "" /\ w \in DOMAIN wkey' /\ wkey'[w] # "") => wkey'[w] = wkey[w]

C39_OneKeyPerAddress == []C39_State /\ [][C39_Step]_vars

\* The third request for one address goes out with the key of the first.
C39_Witness ==
    /\ totalUsed = 1
    /\ \E w \in Workers :
         wpc[w] = "inflight" /\ wsent[w] = maxRetries /\ wcalls[w] = 1 /\ wkey[w] = "k1"

(***************************************************************************)
(* Properties of a cancelled manager (checked under SpecRerun).            *)
(***************************************************************************)
\* The latest call has sent no request and taken no key.
NothingSentOrTaken ==
    /\ \A w \in Workers : wcalls[w] = 0 /\ wsent[w] = 0 /\ wkey[w] = ""
    /\ totalUsed = usedAtStart

\* A second Cancel changes nothing.
CancelIsIdempotent == (ctxDone /\ Cancel) => UNCHANGED <<poolVars, runVars>>

\* C40, as stated: once Cancel has been called on a manager, a later
\* QueryAddresses sends no request and takes no key, each of its results is
\* cancelled or left pending, and a second Cancel changes nothing.
C40_State ==
    (runNo >= 1 /\ cancelledAtStart) =>
        /\ NothingSentOrTaken
        /\ \A i \in 1..N : results[i].Status \in {"cancelled", "pending"}

C40_CancelledManagerDoesNothing == []C40_State /\ [][CancelIsIdempotent]_vars

\* C40, amended: the same, but when the pool is empty each result is the
\* error that says that no key is available.
C40_StateAmended ==
    (runNo >= 1 /\ cancelledAtStart) =>
        /\ NothingSentOrTaken
        /\ \A i \in 1..N :
             IF PoolIsEmpty(keys)
             THEN results[i] = Failed(addresses[i], MsgNoKey)
             ELSE results[i].Status \in {"cancelled", "pending"}

C40_CancelledManagerQueriesNothing ==
    []C40_StateAmended /\ [][CancelIsIdempotent]_vars

\* The first call answered an address, Cancel came after its return, and
\* the second call has marked one address cancelled and left one pending.
C40_Witness ==
    /\ runNo = 2 /\ cancelledAtStart /\ cancelSnap.pc = "done"
    /\ pcMain = "done" /\ N = 2
    /\ totalUsed = 1
    /\ results[1].Status = "cancelled" /\ results[2].Status = "pending"

====
